---- MODULE Spec2Model ----
(***************************************************************************)
(* A model of the hypercore crate: the Merkle tree changeset, the block    *)
(* store, the storage glue, the replication event bus, the core controller *)
(* and the mutex-wrapped SharedCore.                                        *)
(*                                                                         *)
(* Hashes and signatures are symbolic terms (tagged tuples), so two hashes *)
(* are equal iff they were computed from equal inputs.                     *)
(***************************************************************************)
EXTENDS Integers, Sequences, FiniteSets, TLC

(***************************************************************************)
(* Bounds of the model.                                                    *)
(***************************************************************************)
\* blocks appended to one core in the sequential specification
MaxBlocks == 3
\* leaves appended to one changeset in the changeset specification
MaxLeaves == 5
\* get calls that miss in the sequential specification
MaxGetMiss == 1
\* events sent in the event-queue specification beyond the queue capacity
MaxOverflow == 4
\* infos or instructions in one request to a Storage driven directly
MaxInfos == 2

\* largest index of such an info or instruction
MaxIndex == 2

\* largest value of an identifier byte in a buffer given to the decoder
MaxId == 2

\* blocks appended in the shared-core specification
MaxSharedBlocks == 2

\* the mutating backend calls an append may make before the backends fail
MaxWrites == 6

\* the calls made on the core whose appends may fail
MaxCalls == 3

\* the replication specification: the blocks the writer holds at most, the
\* headers a core writes at most, and the truncations of the writer
MaxReplicaLength == 3

MaxWriterSeq == 3

MaxReaderSeq == 2

MaxFork == 1

(***************************************************************************)
(* Block values: the two blocks of the crate's doc example and the empty   *)
(* block.                                                                  *)
(***************************************************************************)
Hello == <<72, 101, 108, 108, 111, 44, 32>>
World == <<119, 111, 114, 108, 100, 33>>
BlockValues == {<<>>, Hello, World}

None == [none |-> TRUE]
Some(x) == [some |-> x]

(***************************************************************************)
(* Sequence helpers.                                                       *)
(***************************************************************************)
RECURSIVE Concat(_)
Concat(batch) ==
    IF batch = <<>> THEN <<>> ELSE Head(batch) \o Concat(Tail(batch))

RECURSIVE SumLen(_)
SumLen(blocks) ==
    IF blocks = <<>> THEN 0 ELSE Len(Head(blocks)) + SumLen(Tail(blocks))

Zeros(n) == [k \in 1..n |-> 0]

Fill(n, b) == [k \in 1..n |-> b]

\* F applied to the value of v, v being evaluated once
Bind(v, F(_)) == CHOOSE out \in {F(x) : x \in {v}} : TRUE

IsSuffix(s, t) ==
    /\ Len(s) <= Len(t)
    /\ SubSeq(t, Len(t) - Len(s) + 1, Len(t)) = s

(***************************************************************************)
(* flat_tree: index arithmetic of the external flat-tree crate, as the     *)
(* changeset uses it.                                                      *)
(***************************************************************************)
RECURSIVE flat_tree_depth(_)
flat_tree_depth(i) ==
    IF i % 2 = 0 THEN 0 ELSE 1 + flat_tree_depth((i - 1) \div 2)

RECURSIVE two_pow(_)
two_pow(n) == IF n = 0 THEN 1 ELSE 2 * two_pow(n - 1)

flat_tree_offset(i) ==
    IF i % 2 = 0 THEN i \div 2
    ELSE LET d == flat_tree_depth(i)
         IN  ((i + 1) \div two_pow(d) - 1) \div 2

flat_tree_index(depth, offset) ==
    (1 + 2 * offset) * two_pow(depth) - 1

flat_tree_parent(i) ==
    flat_tree_index(flat_tree_depth(i) + 1, flat_tree_offset(i) \div 2)

\* flat_tree::Iterator::new(index) -> seek(index)
Iterator_new(index) ==
    IF index % 2 = 1
    THEN [index |-> index, offset |-> flat_tree_offset(index),
          factor |-> two_pow(flat_tree_depth(index) + 1)]
    ELSE [index |-> index, offset |-> index \div 2, factor |-> 2]

Iterator_next(it) ==
    [it EXCEPT !.offset = @ + 1, !.index = @ + it.factor]

Iterator_prev(it) ==
    IF it.offset = 0 THEN it
    ELSE [it EXCEPT !.offset = @ - 1, !.index = @ - it.factor]

\* moves the iterator to the sibling; the new index is the returned value
Iterator_sibling(it) ==
    IF it.offset % 2 = 0 THEN Iterator_next(it) ELSE Iterator_prev(it)

\* moves the iterator to the parent; the new index is the returned value
Iterator_parent(it) ==
    IF it.offset % 2 = 1
    THEN [index |-> it.index - it.factor \div 2,
          offset |-> (it.offset - 1) \div 2, factor |-> it.factor * 2]
    ELSE [index |-> it.index + it.factor \div 2,
          offset |-> it.offset \div 2, factor |-> it.factor * 2]

flat_tree_sibling(i) == Iterator_sibling(Iterator_new(i)).index

\* the last leaf node below node i
flat_tree_right_span(i) == i + two_pow(flat_tree_depth(i)) - 1

(***************************************************************************)
(* crypto: the four hash domains, signable_tree, sign and verify.          *)
(***************************************************************************)
Hash_data(data) == <<"LEAF", Len(data), data>>

\* the node with the lower index is hashed first
Hash_parent(a, b) ==
    LET left  == IF a.index <= b.index THEN a ELSE b
        right == IF a.index <= b.index THEN b ELSE a
    IN  <<"PARENT", left.length + right.length, left.hash, right.hash>>

Hash_tree(roots) ==
    <<"ROOT", [k \in 1..Len(roots) |->
                  <<roots[k].hash, roots[k].index, roots[k].length>>]>>

\* Hash::as_bytes: 32 bytes; the model keeps the digest in the first
Hash_as_bytes(hash) == <<hash>> \o Zeros(31)

Hash_from_bytes(bytes) == bytes[1]

signable_tree(hash, length, fork) == <<"TREE", hash, length, fork>>

PublicKey == "pk"
SecretKey == "sk"
SecretOf(public) == IF public = PublicKey THEN SecretKey ELSE "unknown"

sign(public_key, secret_key, msg) == [signer |-> secret_key, msg |-> msg]

verify(public_key, msg, signature) ==
    /\ signature # None
    /\ signature.signer = SecretOf(public_key)
    /\ signature.msg = msg

(***************************************************************************)
(* common/node.rs                                                          *)
(***************************************************************************)
Node_new(index, hash, length) ==
    [index |-> index, hash |-> hash, length |-> length,
     parent |-> flat_tree_parent(index), data |-> Some(<<>>), blank |-> FALSE]

\* vec![0, 32]: the two bytes 0 and 32
Node_new_blank(index) ==
    [index |-> index, hash |-> <<0, 32>>, length |-> 0,
     parent |-> 0, data |-> None, blank |-> TRUE]

RECURSIVE be_byte(_, _)
\* the byte of n that stands j places from the right
be_byte(n, j) == IF j = 0 THEN n % 256 ELSE be_byte(n \div 256, j - 1)

\* write_u64::<BigEndian>
u64_to_be(n) == [k \in 1..8 |-> be_byte(n, 8 - k)]

RECURSIVE u64_from_be(_)
\* read_u64::<BigEndian>
u64_from_be(bytes) ==
    IF bytes = <<>> THEN 0
    ELSE bytes[Len(bytes)] + 256 * u64_from_be(SubSeq(bytes, 1, Len(bytes) - 1))

HasNonZero(bytes) == \E k \in 1..Len(bytes) : bytes[k] # 0

Node_from_bytes(index, buffer) ==
    IF Len(buffer) # 40 THEN [err |-> "buffer should be 40 bytes"]
    ELSE LET hash == SubSeq(buffer, 1, 32)
         IN  [ok |-> [index |-> index, hash |-> hash,
                      length |-> u64_from_be(SubSeq(buffer, 33, 40)),
                      parent |-> flat_tree_parent(index),
                      data |-> Some(<<>>), blank |-> ~HasNonZero(hash)]]

Node_to_bytes(node) == node.hash \o u64_to_be(node.length)

\* From<NodeParts<Hash>>: parts of a leaf carry its data, parts of a parent
\* none
Node_from_parts(parts) ==
    [index |-> parts.index, hash |-> parts.hash, length |-> parts.length,
     parent |-> parts.parent,
     data |-> IF parts.kind = "Leaf" THEN Some(parts.data) ELSE None,
     blank |-> ~HasNonZero(parts.hash)]

\* derive(PartialEq, Eq): all six fields
Node_eq(a, b) ==
    /\ a.index = b.index /\ a.hash = b.hash /\ a.length = b.length
    /\ a.parent = b.parent /\ a.data = b.data /\ a.blank = b.blank

\* Ord::cmp: the indices
Node_cmp(a, b) ==
    IF a.index < b.index THEN "Less"
    ELSE IF a.index > b.index THEN "Greater" ELSE "Equal"

(***************************************************************************)
(* tree/merkle_tree_changeset.rs                                           *)
(***************************************************************************)
MerkleTreeChangeset_new(length, byte_length, fork, roots) ==
    [length |-> length, ancestors |-> length, byte_length |-> byte_length,
     batch_length |-> 0, fork |-> fork, roots |-> roots, nodes |-> <<>>,
     hash_and_signature |-> None, upgraded |-> FALSE,
     original_tree_length |-> length, original_tree_fork |-> fork]

\* mutant: the parent takes the length of the root merged last
RECURSIVE append_root_merge_short(_, _)
append_root_merge_short(cs, iter) ==
    IF Len(cs.roots) <= 1 THEN cs
    ELSE LET n    == Len(cs.roots)
             a    == cs.roots[n]
             b    == cs.roots[n - 1]
             sib  == Iterator_sibling(iter)
         IN  IF sib.index # b.index THEN cs
             ELSE LET up   == Iterator_parent(sib)
                      node == Node_new(up.index, Hash_parent(a, b), a.length)
                  IN  append_root_merge_short(
                          [cs EXCEPT !.nodes = Append(@, node),
                                     !.roots = Append(SubSeq(@, 1, n - 2), node)],
                          up)

\* mutant: the hashes enter the parent hash in the order of the variables a
\* and b, the root pushed last first
RECURSIVE append_root_merge_as_given(_, _)
append_root_merge_as_given(cs, iter) ==
    IF Len(cs.roots) <= 1 THEN cs
    ELSE LET n    == Len(cs.roots)
             a    == cs.roots[n]
             b    == cs.roots[n - 1]
             sib  == Iterator_sibling(iter)
         IN  IF sib.index # b.index THEN cs
             ELSE LET up   == Iterator_parent(sib)
                      node == Node_new(up.index,
                                  <<"PARENT", a.length + b.length, a.hash, b.hash>>,
                                  a.length + b.length)
                  IN  append_root_merge_as_given(
                          [cs EXCEPT !.nodes = Append(@, node),
                                     !.roots = Append(SubSeq(@, 1, n - 2), node)],
                          up)

\* the while loop of append_root: merge the last two roots while they are
\* siblings; iter points at the last root on entry
RECURSIVE append_root_merge(_, _)
append_root_merge(cs, iter) ==
    IF Len(cs.roots) <= 1 THEN cs
    ELSE LET n    == Len(cs.roots)
             a    == cs.roots[n]
             b    == cs.roots[n - 1]
             sib  == Iterator_sibling(iter)
         IN  IF sib.index # b.index THEN cs
             ELSE LET up   == Iterator_parent(sib)
                      node == Node_new(up.index, Hash_parent(a, b),
                                       a.length + b.length)
                  IN  append_root_merge(
                          [cs EXCEPT !.nodes = Append(@, node),
                                     !.roots = Append(SubSeq(@, 1, n - 2), node)],
                          up)

\* mutant: ancestors follows the length
MerkleTreeChangeset_append_root_rebased(cs, node, iter) ==
    append_root_merge(
        [cs EXCEPT !.upgraded = TRUE,
                   !.ancestors = cs.length,
                   !.length = @ + iter.factor \div 2,
                   !.byte_length = @ + node.length,
                   !.roots = Append(@, node),
                   !.nodes = Append(@, node)],
        iter)

\* mutant: the new root is pushed and never merged with its sibling
MerkleTreeChangeset_append_root_unmerged(cs, node, iter) ==
    [cs EXCEPT !.upgraded = TRUE,
               !.length = @ + iter.factor \div 2,
               !.byte_length = @ + node.length,
               !.roots = Append(@, node),
               !.nodes = Append(@, node)]

MerkleTreeChangeset_append_root(cs, node, iter) ==
    append_root_merge(
        [cs EXCEPT !.upgraded = TRUE,
                   !.length = @ + iter.factor \div 2,
                   !.byte_length = @ + node.length,
                   !.roots = Append(@, node),
                   !.nodes = Append(@, node)],
        iter)

\* mutant: the leaf is numbered by the length, not by twice the length
MerkleTreeChangeset_append_at_length(cs, data) ==
    LET head == cs.length
        iter == Iterator_new(2 * cs.length)
        node == Node_new(head, Hash_data(data), Len(data))
        cs1  == MerkleTreeChangeset_append_root(cs, node, iter)
    IN  [cs1 EXCEPT !.batch_length = @ + 1]

\* mutant: batch_length is not counted
MerkleTreeChangeset_append_uncounted(cs, data) ==
    LET head == cs.length * 2
        iter == Iterator_new(head)
        node == Node_new(head, Hash_data(data), Len(data))
    IN  MerkleTreeChangeset_append_root(cs, node, iter)

MerkleTreeChangeset_append(cs, data) ==
    LET head == cs.length * 2
        iter == Iterator_new(head)
        node == Node_new(head, Hash_data(data), Len(data))
        cs1  == MerkleTreeChangeset_append_root(cs, node, iter)
    IN  [cs1 EXCEPT !.batch_length = @ + 1]

\* what append returns: data.len()
MerkleTreeChangeset_append_len(cs, data) == Len(data)

MerkleTreeChangeset_hash(cs) == Hash_tree(cs.roots)

\* mutant: the signature covers the length before the change
MerkleTreeChangeset_hash_and_sign_stale(cs, public_key, secret_key) ==
    LET hash      == MerkleTreeChangeset_hash(cs)
        signable  == signable_tree(hash, cs.ancestors, cs.fork)
        signature == sign(public_key, secret_key, signable)
    IN  [cs EXCEPT !.hash_and_signature = Some(<<hash, signature>>)]

MerkleTreeChangeset_hash_and_sign(cs, public_key, secret_key) ==
    LET hash      == MerkleTreeChangeset_hash(cs)
        signable  == signable_tree(hash, cs.length, cs.fork)
        signature == sign(public_key, secret_key, signable)
    IN  [cs EXCEPT !.hash_and_signature = Some(<<hash, signature>>)]

(***************************************************************************)
(* common/store.rs and data/mod.rs                                         *)
(***************************************************************************)
StoreInfo_new_content(store, index, data) ==
    [store |-> store, info_type |-> "Content", index |-> index,
     length |-> Some(Len(data)), data |-> Some(data), miss |-> FALSE]

StoreInfo_new_content_miss(store, index) ==
    [store |-> store, info_type |-> "Content", index |-> index,
     length |-> None, data |-> None, miss |-> TRUE]

StoreInfo_new_delete(store, index, length) ==
    [store |-> store, info_type |-> "Content", index |-> index,
     length |-> Some(length), data |-> None, miss |-> TRUE]

StoreInfo_new_truncate(store, index) ==
    [store |-> store, info_type |-> "Size", index |-> index,
     length |-> None, data |-> None, miss |-> TRUE]

StoreInfo_new_size(store, index, length) ==
    [store |-> store, info_type |-> "Size", index |-> index,
     length |-> Some(length), data |-> None, miss |-> FALSE]

StoreInfoInstruction_new_content(store, index, length) ==
    [store |-> store, info_type |-> "Content", index |-> index,
     length |-> Some(length), allow_miss |-> FALSE]

StoreInfoInstruction_new_content_allow_miss(store, index, length) ==
    [store |-> store, info_type |-> "Content", index |-> index,
     length |-> Some(length), allow_miss |-> TRUE]

StoreInfoInstruction_new_all_content(store) ==
    [store |-> store, info_type |-> "Content", index |-> 0,
     length |-> None, allow_miss |-> FALSE]

StoreInfoInstruction_new_size(store, index) ==
    [store |-> store, info_type |-> "Size", index |-> index,
     length |-> None, allow_miss |-> FALSE]

\* mutant: the batch is written at the start of the store
BlockStore_append_batch_at_zero(batch, batch_length, byte_length) ==
    StoreInfo_new_content("Data", 0, Concat(batch))

\* mutant: the blocks of the batch are laid down last block first
BlockStore_append_batch_reversed(batch, batch_length, byte_length) ==
    StoreInfo_new_content("Data", byte_length,
        Concat([k \in 1..Len(batch) |-> batch[Len(batch) + 1 - k]]))

BlockStore_append_batch(batch, batch_length, byte_length) ==
    StoreInfo_new_content("Data", byte_length, Concat(batch))

(***************************************************************************)
(* storage/mod.rs over in-memory random-access stores: a store is the      *)
(* sequence of its bytes.                                                  *)
(***************************************************************************)
\* RandomAccess::write(offset, data): grows the store with zeros as needed
RandomAccess_write(bytes, offset, data) ==
    LET end    == offset + Len(data)
        before == IF offset <= Len(bytes) THEN SubSeq(bytes, 1, offset)
                  ELSE bytes \o Zeros(offset - Len(bytes))
        after  == IF end < Len(bytes) THEN SubSeq(bytes, end + 1, Len(bytes))
                  ELSE <<>>
    IN  before \o data \o after

\* RandomAccess::read(offset, length): out of bounds past the end
RandomAccess_read(bytes, offset, length) ==
    IF offset + length > Len(bytes)
    THEN [err |-> "OutOfBounds"]
    ELSE [ok |-> SubSeq(bytes, offset + 1, offset + length)]

RandomAccess_truncate(bytes, length) ==
    IF length <= Len(bytes) THEN SubSeq(bytes, 1, length)
    ELSE bytes \o Zeros(length - Len(bytes))

RandomAccess_del(bytes, offset, length) ==
    IF offset > Len(bytes) THEN [err |-> "OutOfBounds"]
    ELSE IF length = 0 THEN [ok |-> bytes]
    ELSE IF offset + length >= Len(bytes) THEN [ok |-> SubSeq(bytes, 1, offset)]
    ELSE [ok |-> [k \in 1..Len(bytes) |->
                     IF k > offset /\ k <= offset + length THEN 0 ELSE bytes[k]]]

Stores == {"Tree", "Data", "Bitfield", "Oplog"}

\* A Storage: the bytes of its four stores.  `journal` is the history of
\* the mutating calls made on the backends; `broken` (stores whose backend
\* fails every call with an IO error) and `writes_left` (mutating calls the
\* backends still accept, -1 for no limit) describe backends that fail.
Storage_new_memory ==
    [Tree |-> <<>>, Data |-> <<>>, Bitfield |-> <<>>, Oplog |-> <<>>,
     journal |-> <<>>, broken |-> {}, writes_left |-> -1,
     overflow_checks |-> TRUE]

map_random_access_err(err) ==
    IF err = "OutOfBounds" THEN "InvalidOperation" ELSE "IO"

\* one mutating call on the backend of `store`; r is what the call does to
\* the bytes when the backend works
Backend_call(storage, store, call, r) ==
    LET entry  == [store |-> store, op |-> call.op, index |-> call.index,
                   length |-> call.length]
        logged == [storage EXCEPT !.journal = Append(@, entry)]
    IN  IF store \in storage.broken \/ storage.writes_left = 0
        THEN [err |-> map_random_access_err("IO"), storage |-> storage]
        ELSE IF "ok" \in DOMAIN r
        THEN [ok |-> [logged EXCEPT
                         ![store] = r.ok,
                         !.writes_left = IF @ > 0 THEN @ - 1 ELSE @]]
        ELSE [err |-> map_random_access_err(r.err), storage |-> storage]

\* mutant: every info with miss = true truncates its store at index
Storage_flush_one_truncating(storage, info) ==
    IF info.miss
    THEN Backend_call(storage, info.store,
             [op |-> "truncate", index |-> info.index, length |-> 0],
             [ok |-> RandomAccess_truncate(storage[info.store], info.index)])
    ELSE IF info.info_type = "Content" /\ info.data # None
    THEN Backend_call(storage, info.store,
             [op |-> "write", index |-> info.index,
              length |-> Len(info.data.some)],
             [ok |-> RandomAccess_write(storage[info.store], info.index,
                                        info.data.some)])
    ELSE [ok |-> storage]

\* one iteration of the loop of flush_infos: the backend operation of one info
Storage_flush_one(storage, info) ==
    LET bytes == storage[info.store]
    IN  IF info.info_type = "Content"
        THEN IF ~info.miss
             THEN IF info.data # None
                  THEN Backend_call(storage, info.store,
                          [op |-> "write", index |-> info.index,
                           length |-> Len(info.data.some)],
                          [ok |-> RandomAccess_write(bytes, info.index, info.data.some)])
                  ELSE [ok |-> storage]
             ELSE IF info.length = None
                  THEN [panic |-> "When deleting, length must be given",
                        storage |-> storage]
                  ELSE Backend_call(storage, info.store,
                          [op |-> "del", index |-> info.index,
                           length |-> info.length.some],
                          RandomAccess_del(bytes, info.index, info.length.some))
        ELSE IF info.miss
             THEN Backend_call(storage, info.store,
                     [op |-> "truncate", index |-> info.index, length |-> 0],
                     [ok |-> RandomAccess_truncate(bytes, info.index)])
             ELSE [panic |-> "Flushing a size that isn't miss, is not supported",
                   storage |-> storage]

\* mutant: a failed operation is skipped and the loop goes on
RECURSIVE Storage_flush_infos_continuing(_, _)
Storage_flush_infos_continuing(storage, infos) ==
    IF infos = <<>> THEN [ok |-> storage]
    ELSE Bind(Storage_flush_one(storage, Head(infos)), LAMBDA r :
             IF "ok" \in DOMAIN r
             THEN Storage_flush_infos_continuing(r.ok, Tail(infos))
             ELSE Storage_flush_infos_continuing(r.storage, Tail(infos)))

\* flush_infos: the infos in sequence, stopping at the first failure; the
\* writes made before the failure stay
RECURSIVE Storage_flush_infos(_, _)
Storage_flush_infos(storage, infos) ==
    IF infos = <<>> THEN [ok |-> storage]
    ELSE Bind(Storage_flush_one(storage, Head(infos)), LAMBDA r :
             IF "ok" \in DOMAIN r
             THEN Storage_flush_infos(r.ok, Tail(infos))
             ELSE r)

\* the result of a request as the caller sees it
Outcome(r) ==
    IF "ok" \in DOMAIN r THEN "Ok"
    ELSE IF "err" \in DOMAIN r THEN r.err ELSE "panic"

Storage_flush_info(storage, info) == Storage_flush_infos(storage, <<info>>)

\* u64 subtraction a - b.  A u64 is written as the integer congruent to it
\* modulo 2^64 that lies nearest zero: -d stands for 2^64 - d.  With b > a
\* the build decides: with overflow checks (debug builds) the subtraction
\* panics, without them (release builds) it wraps around.
u64_sub(a, b, overflow_checks) ==
    IF b > a /\ overflow_checks
    THEN [panic |-> "attempt to subtract with overflow"]
    ELSE [ok |-> a - b]

\* one call on the backend of a store that does not change it
Backend_read(store, op, index, length) ==
    [store |-> store, op |-> op, index |-> index, length |-> length]

\* mutant: every failed read of an allow_miss instruction becomes a miss
Storage_read_one_lenient(storage, instruction) ==
    LET bytes == storage[instruction.store]
        read_length == IF instruction.length # None
                       THEN instruction.length.some ELSE Len(bytes)
        r == RandomAccess_read(bytes, instruction.index, read_length)
        calls == <<Backend_read(instruction.store, "read", instruction.index,
                                read_length)>>
    IN  IF instruction.store \notin storage.broken /\ "ok" \in DOMAIN r
        THEN [ok |-> StoreInfo_new_content(instruction.store,
                                           instruction.index, r.ok),
              calls |-> calls]
        ELSE IF instruction.allow_miss
        THEN [ok |-> StoreInfo_new_content_miss(instruction.store,
                                                instruction.index),
              calls |-> calls]
        ELSE [err |-> "InvalidOperation", calls |-> calls]

\* one iteration of the loop of read_infos_to_vec; `calls` are the calls it
\* makes on the backend
Storage_read_one(storage, instruction) ==
    LET bytes  == storage[instruction.store]
        broken == instruction.store \in storage.broken
        len    == Backend_read(instruction.store, "len", 0, 0)
    IN  IF instruction.info_type = "Content"
        THEN IF instruction.length = None /\ broken
             THEN [err |-> map_random_access_err("IO"), calls |-> <<len>>]
             ELSE
             LET read_length == IF instruction.length # None
                                THEN instruction.length.some ELSE Len(bytes)
                 r == IF broken THEN [err |-> "IO"]
                      ELSE RandomAccess_read(bytes, instruction.index, read_length)
                 calls == (IF instruction.length = None THEN <<len>> ELSE <<>>)
                          \o <<Backend_read(instruction.store, "read",
                                            instruction.index, read_length)>>
             IN  IF "ok" \in DOMAIN r
                 THEN [ok |-> StoreInfo_new_content(instruction.store,
                                                    instruction.index, r.ok),
                       calls |-> calls]
                 ELSE IF r.err = "OutOfBounds"
                 THEN IF instruction.allow_miss
                      THEN [ok |-> StoreInfo_new_content_miss(instruction.store,
                                                              instruction.index),
                            calls |-> calls]
                      ELSE [err |-> "InvalidOperation", calls |-> calls]
                 ELSE [err |-> map_random_access_err(r.err), calls |-> calls]
        ELSE IF broken
             THEN [err |-> map_random_access_err("IO"), calls |-> <<len>>]
             ELSE Bind(u64_sub(Len(bytes), instruction.index,
                               storage.overflow_checks), LAMBDA length :
                      IF "panic" \in DOMAIN length
                      THEN [panic |-> length.panic, calls |-> <<len>>]
                      ELSE [ok |-> StoreInfo_new_size(instruction.store,
                                       instruction.index, length.ok),
                            calls |-> <<len>>])

\* read_infos_to_vec: nothing is done for an empty list; otherwise the
\* instructions in sequence, the first error (or panic) being the result
RECURSIVE Storage_read_infos_to_vec(_, _)
Storage_read_infos_to_vec(storage, instructions) ==
    IF instructions = <<>> THEN [ok |-> <<>>, calls |-> <<>>]
    ELSE Bind(Storage_read_one(storage, Head(instructions)), LAMBDA r :
             IF "ok" \notin DOMAIN r THEN r
             ELSE Bind(Storage_read_infos_to_vec(storage, Tail(instructions)),
                       LAMBDA rest :
                  IF "ok" \notin DOMAIN rest
                  THEN [rest EXCEPT !.calls = r.calls \o @]
                  ELSE [ok |-> <<r.ok>> \o rest.ok,
                        calls |-> r.calls \o rest.calls]))

Storage_read_infos(storage, instructions) ==
    Storage_read_infos_to_vec(storage, instructions)

\* read_info: read_infos_to_vec on one instruction
Storage_read_info(storage, instruction) ==
    LET r == Storage_read_infos_to_vec(storage, <<instruction>>)
    IN  IF "ok" \in DOMAIN r THEN [ok |-> r.ok[1]]
        ELSE IF "err" \in DOMAIN r THEN [err |-> r.err]
        ELSE [panic |-> r.panic]

\* the order in which open and new_disk create and truncate the stores
StoreOrder == <<"Tree", "Data", "Bitfield", "Oplog">>

\* create(Store::Tree).await.map_err(..)?, then Data, Bitfield, Oplog: the
\* stores the callback was called for, and the error of the first call
\* that failed
RECURSIVE Storage_create_each(_, _, _)
Storage_create_each(stores, uncreatable, created) ==
    IF stores = <<>> THEN [ok |-> created]
    ELSE IF Head(stores) \in uncreatable
    THEN [err |-> map_random_access_err("IO"),
          created |-> Append(created, Head(stores))]
    ELSE Storage_create_each(Tail(stores), uncreatable,
                             Append(created, Head(stores)))

\* if x.len().await? > 0 { x.truncate(0).await? } for each store in turn
RECURSIVE Storage_overwrite_each(_, _)
Storage_overwrite_each(storage, stores) ==
    IF stores = <<>> THEN [ok |-> storage]
    ELSE IF Head(stores) \in storage.broken
    THEN [err |-> map_random_access_err("IO"), storage |-> storage]
    ELSE IF Len(storage[Head(stores)]) > 0
    THEN Bind(Backend_call(storage, Head(stores),
                  [op |-> "truncate", index |-> 0, length |-> 0],
                  [ok |-> RandomAccess_truncate(storage[Head(stores)], 0)]),
              LAMBDA r : IF "ok" \in DOMAIN r
                         THEN Storage_overwrite_each(r.ok, Tail(stores))
                         ELSE r)
    ELSE Storage_overwrite_each(storage, Tail(stores))

\* mutant: the overwrite flag is not looked at
Storage_open_keeping(medium, uncreatable, overwrite) ==
    Bind(Storage_create_each(StoreOrder, uncreatable, <<>>), LAMBDA c :
        IF "err" \in DOMAIN c
        THEN [err |-> c.err, created |-> c.created, storage |-> medium]
        ELSE [ok |-> medium, created |-> c.ok])

\* Storage::open(create, overwrite): `medium` is what the backends the
\* callback opens hold, `uncreatable` the stores the callback fails for.
\* The result is the Storage, or the error; `storage` is then what the
\* backends hold after the calls made before the error.
Storage_open(medium, uncreatable, overwrite) ==
    Bind(Storage_create_each(StoreOrder, uncreatable, <<>>), LAMBDA c :
        IF "err" \in DOMAIN c
        THEN [err |-> c.err, created |-> c.created, storage |-> medium]
        ELSE IF overwrite
        THEN Bind(Storage_overwrite_each(medium, StoreOrder), LAMBDA r :
                 IF "ok" \in DOMAIN r
                 THEN [ok |-> r.ok, created |-> c.ok]
                 ELSE [err |-> r.err, created |-> c.ok, storage |-> r.storage])
        ELSE [ok |-> medium, created |-> c.ok])

\* Storage::new_disk(dir, overwrite): the body of open with create_disk as
\* the callback
Storage_new_disk(medium, uncreatable, overwrite) ==
    Storage_open(medium, uncreatable, overwrite)

(***************************************************************************)
(* encoding.rs: the compact encoding of Manifest and ManifestSigner.       *)
(* A buffer is a sequence of bytes.                                        *)
(***************************************************************************)
\* compact_encoding::take_array::<n>: the first n bytes and the rest
take_array(n, buffer) ==
    IF Len(buffer) < n THEN [err |-> "OutOfBounds"]
    ELSE [ok |-> SubSeq(buffer, 1, n),
          rest |-> SubSeq(buffer, n + 1, Len(buffer))]

ManifestSigner_decode(buffer) ==
    LET sig == take_array(1, buffer)
    IN  IF "err" \in DOMAIN sig THEN sig
        ELSE IF sig.ok[1] # 0 THEN [err |-> "InvalidData"]
        ELSE LET ns == take_array(32, sig.rest)
             IN  IF "err" \in DOMAIN ns THEN ns
                 ELSE LET pk == take_array(32, ns.rest)
                      IN  IF "err" \in DOMAIN pk THEN pk
                          ELSE [ok |-> [signature |-> "ed25519",
                                        namespace |-> ns.ok,
                                        public_key |-> pk.ok],
                                rest |-> pk.rest]

Manifest_decode(buffer) ==
    LET version == take_array(1, buffer)
    IN  IF "err" \in DOMAIN version THEN version
        ELSE IF version.ok[1] # 0 THEN [panic |-> "Unknown manifest version"]
        ELSE LET hash_id == take_array(1, version.rest)
             IN  IF "err" \in DOMAIN hash_id THEN hash_id
                 ELSE IF hash_id.ok[1] # 0 THEN [err |-> "InvalidData"]
                 ELSE LET manifest_type == take_array(1, hash_id.rest)
                      IN  IF "err" \in DOMAIN manifest_type THEN manifest_type
                          ELSE IF manifest_type.ok[1] # 1 THEN [err |-> "InvalidData"]
                          ELSE LET signer == ManifestSigner_decode(manifest_type.rest)
                               IN  IF "err" \in DOMAIN signer THEN signer
                                   ELSE [ok |-> [hash |-> "blake2b",
                                                 signer |-> signer.ok],
                                         rest |-> signer.rest]

\* compact_encoding::write_slice and encode_bytes_fixed: the bytes are
\* written at the start of the buffer, the rest of the buffer is returned
write_slice(source, buffer) ==
    IF Len(buffer) < Len(source) THEN [err |-> "OutOfBounds"]
    ELSE [ok |-> source, rest |-> SubSeq(buffer, Len(source) + 1, Len(buffer))]

\* ManifestSigner::encoded_size and Manifest::encoded_size
ManifestSigner_encoded_size == 1 + 32 + 32

Manifest_encoded_size == 1 + 1 + 1 + ManifestSigner_encoded_size

\* the result of an encode: `ok` are the bytes written at the start of the
\* buffer (also when the encode fails after writing some), `rest` the part
\* of the buffer behind them
ManifestSigner_encode(signer, buffer) ==
    IF signer.signature # "ed25519"
    THEN [err |-> "InvalidData", written |-> <<>>]
    ELSE Bind(write_slice(<<0>>, buffer), LAMBDA id :
         IF "err" \in DOMAIN id THEN [err |-> id.err, written |-> <<>>]
         ELSE Bind(write_slice(signer.namespace, id.rest), LAMBDA ns :
              IF "err" \in DOMAIN ns THEN [err |-> ns.err, written |-> id.ok]
              ELSE Bind(write_slice(signer.public_key, ns.rest), LAMBDA pk :
                   IF "err" \in DOMAIN pk
                   THEN [err |-> pk.err, written |-> id.ok \o ns.ok]
                   ELSE [ok |-> id.ok \o ns.ok \o pk.ok, rest |-> pk.rest])))

\* what Manifest::encode does with the manifest type byte `type_id`
Manifest_encode_with(manifest, buffer, type_id) ==
    Bind(write_slice(<<0>>, buffer), LAMBDA version :
    IF "err" \in DOMAIN version THEN [err |-> version.err, written |-> <<>>]
    ELSE IF manifest.hash # "blake2b"
    THEN [err |-> "InvalidData", written |-> version.ok]
    ELSE Bind(write_slice(<<0>>, version.rest), LAMBDA hash :
         IF "err" \in DOMAIN hash THEN [err |-> hash.err, written |-> version.ok]
         ELSE Bind(write_slice(<<type_id>>, hash.rest), LAMBDA type :
              IF "err" \in DOMAIN type
              THEN [err |-> type.err, written |-> version.ok \o hash.ok]
              ELSE Bind(ManifestSigner_encode(manifest.signer, type.rest),
                        LAMBDA signer :
                   IF "err" \in DOMAIN signer
                   THEN [err |-> signer.err,
                         written |-> version.ok \o hash.ok \o type.ok
                                        \o signer.written]
                   ELSE [ok |-> version.ok \o hash.ok \o type.ok \o signer.ok,
                         rest |-> signer.rest]))))

\* mutant: the manifest type is written as 0
Manifest_encode_untyped(manifest, buffer) ==
    Manifest_encode_with(manifest, buffer, 0)

Manifest_encode(manifest, buffer) == Manifest_encode_with(manifest, buffer, 1)

(***************************************************************************)
(* replication/events.rs over an async_broadcast channel.  The channel     *)
(* keeps `log`, a history of every message handed to try_broadcast.        *)
(***************************************************************************)
MAX_EVENT_QUEUE_CAPACITY == 32

DataUpgradeEvent == [type |-> "DataUpgrade"]

\* mutant: the event announces the range after the update
Have_from_end(update) ==
    [type |-> "Have", start |-> update.start + update.length,
     length |-> update.length, drop |-> update.drop]

\* mutant: start and length swapped
Have_from_swapped(update) ==
    [type |-> "Have", start |-> update.length, length |-> update.start,
     drop |-> update.drop]

\* impl From<&BitfieldUpdate> for Have
Have_from(update) ==
    [type |-> "Have", start |-> update.start, length |-> update.length,
     drop |-> update.drop]

GetEvent(index, get_result) ==
    [type |-> "Get", index |-> index, get_result |-> get_result]

\* async_broadcast::broadcast(cap) followed by receiver.deactivate()
broadcast_inactive(cap) ==
    [capacity |-> cap, overflow |-> FALSE, await_active |-> TRUE,
     receiver_count |-> 0, inactive_receiver_count |-> 1,
     queue |-> <<>>, head_pos |-> 0, log |-> <<>>]

\* Sender::try_broadcast: never waits; Inactive without an active receiver,
\* Full on a full queue unless overflow mode pops the oldest message
try_broadcast(ch, msg) ==
    LET logged == [ch EXCEPT !.log = Append(@, msg)]
    IN  IF ch.receiver_count = 0
        THEN [channel |-> logged, res |-> "Inactive"]
        ELSE IF Len(ch.queue) = ch.capacity
        THEN IF ch.overflow
             THEN [channel |-> [logged EXCEPT !.queue = Append(Tail(@), msg),
                                              !.head_pos = @ + 1],
                   res |-> "Ok"]
             ELSE [channel |-> logged, res |-> "Full"]
        ELSE [channel |-> [logged EXCEPT !.queue = Append(@, msg)], res |-> "Ok"]

\* Sender::new_receiver: a receiver that sees the messages sent from now on
new_receiver(ch) ==
    [channel |-> [ch EXCEPT !.receiver_count = @ + 1],
     receiver |-> [active |-> TRUE, pos |-> ch.head_pos + Len(ch.queue)]]

\* Receiver::try_recv of the only active receiver: Overflowed once when
\* messages it had not read were dropped, else the next message, else Empty
try_recv(ch, r) ==
    IF r.pos < ch.head_pos
    THEN [channel |-> ch, receiver |-> [r EXCEPT !.pos = ch.head_pos],
          res |-> [overflowed |-> ch.head_pos - r.pos]]
    ELSE IF r.pos - ch.head_pos >= Len(ch.queue)
    THEN [channel |-> ch, receiver |-> r, res |-> [empty |-> TRUE]]
    ELSE [channel |-> [ch EXCEPT !.queue = Tail(@), !.head_pos = @ + 1],
          receiver |-> [r EXCEPT !.pos = @ + 1],
          res |-> [msg |-> ch.queue[r.pos - ch.head_pos + 1]]]

\* mutant: overflow mode is not switched on
Events_new_no_overflow ==
    [channel |-> [broadcast_inactive(MAX_EVENT_QUEUE_CAPACITY)
                     EXCEPT !.await_active = FALSE]]

Events_new ==
    [channel |-> [broadcast_inactive(MAX_EVENT_QUEUE_CAPACITY)
                     EXCEPT !.await_active = FALSE, !.overflow = TRUE]]

\* mutant: the outcome of try_broadcast is returned to the caller
Events_send_propagating(events, evt) ==
    LET r == try_broadcast(events.channel, evt)
    IN  [events |-> [events EXCEPT !.channel = r.channel],
         result |-> IF r.res = "Ok" THEN "Ok" ELSE "Err"]

\* Events::send: the outcome of try_broadcast is dropped
Events_send(events, evt) ==
    LET r == try_broadcast(events.channel, evt)
    IN  [events |-> [events EXCEPT !.channel = r.channel], result |-> "Ok"]

\* mutant: the event is sent twice
Events_send_on_get_twice(events, index, tx) ==
    Events_send(Events_send(events, GetEvent(index, tx)).events,
                GetEvent(index, tx)).events

\* Events::send_on_get: tx is the sender of a fresh one-slot channel
Events_send_on_get(events, index, tx) ==
    Events_send(events, GetEvent(index, tx)).events

(***************************************************************************)
(* The core controller (Hypercore) and its Merkle tree state.  An append   *)
(* and a get are given as their phases, one per suspension point; the      *)
(* whole call is their composition.                                        *)
(***************************************************************************)
MerkleTree_new ==
    [length |-> 0, byte_length |-> 0, fork |-> 0, roots |-> <<>>,
     signature |-> None, nodes |-> {}]

MerkleTree_changeset(tree) ==
    MerkleTreeChangeset_new(tree.length, tree.byte_length, tree.fork, tree.roots)

\* the header of an empty core, and a slot that holds no valid header
Oplog_first_header ==
    [valid |-> TRUE, seq |-> 0, entries |-> 0, length |-> 0, fork |-> 0,
     signature |-> None]

Oplog_no_header == [Oplog_first_header EXCEPT !.valid = FALSE]

\* the newest valid header of the oplog
Oplog_open(storage) ==
    LET slots == {k \in 1..2 : k <= Len(storage.Oplog) /\ storage.Oplog[k].valid}
    IN  IF slots = {} THEN [err |-> "BadHeader"]
        ELSE [ok |-> storage.Oplog[CHOOSE k \in slots :
                        \A j \in slots : storage.Oplog[j].seq <= storage.Oplog[k].seq]]

\* a new core writes its first header into slot A
Hypercore_new ==
    [key_pair |-> [public |-> PublicKey, secret |-> Some(SecretKey)],
     tree     |-> MerkleTree_new,
     storage  |-> Storage_flush_info(Storage_new_memory,
                      StoreInfo_new_content("Oplog", 0,
                          <<Oplog_first_header, Oplog_no_header>>)).ok,
     bitfield |-> {},
     header   |-> [seq |-> 0, entries |-> 0],
     events   |-> Events_new,
     chans    |-> 0]

Hypercore_info(c) ==
    [length |-> c.tree.length, byte_length |-> c.tree.byte_length,
     fork |-> c.tree.fork, writeable |-> c.key_pair.secret # None]

RECURSIVE changeset_append_all(_, _)
changeset_append_all(cs, batch) ==
    IF batch = <<>> THEN cs
    ELSE changeset_append_all(MerkleTreeChangeset_append(cs, Head(batch)), Tail(batch))

\* the oplog store, in records: header slot A at 0, slot B at 1, the
\* entry stream from 2 on
OplogEntriesStart == 2

\* the tree store holds node i in the 40 bytes from 40 * i on
NodeSize == 40

\* the header written after a changeset: the tree state and the length of
\* the entry stream it covers
Oplog_header(c, cs) ==
    [valid |-> TRUE, seq |-> c.header.seq + 1,
     entries |-> c.header.entries + 1,
     length |-> cs.length, fork |-> cs.fork,
     signature |-> cs.hash_and_signature.some[2]]

\* stage the changeset and sign it
append_stage(c, batch) ==
    LET cs == MerkleTreeChangeset_hash_and_sign(
                  changeset_append_all(MerkleTree_changeset(c.tree), batch),
                  c.key_pair.public, c.key_pair.secret.some)
    IN  [batch |-> batch, changeset |-> cs, batch_length |-> SumLen(batch),
         bitfield_update |-> [drop |-> FALSE, start |-> cs.ancestors,
                              length |-> cs.batch_length],
         header |-> Oplog_header(c, cs),
         sends |-> <<>>]

\* the new tree nodes, each at 40 * index of the tree store
append_tree_infos(c, f) ==
    [k \in 1..Len(f.changeset.nodes) |->
        LET node == f.changeset.nodes[k]
        IN  StoreInfo_new_content("Tree", NodeSize * node.index,
                Node_to_bytes([node EXCEPT !.hash = Hash_as_bytes(@)]))]

\* the blocks, at the byte length of the tree
append_data_infos(c, f) ==
    <<BlockStore_append_batch(f.batch, f.batch_length, c.tree.byte_length)>>

\* the bitfield update (the bitfield store holds one cell per block)
append_bitfield_infos(c, f) ==
    <<StoreInfo_new_content("Bitfield", f.bitfield_update.start,
                            Fill(f.bitfield_update.length, 1))>>

\* the oplog entry of the changeset, at the end of the entry stream
append_entry_infos(c, f) ==
    <<StoreInfo_new_content("Oplog", OplogEntriesStart + c.header.entries,
         <<[tree_upgrade |-> [length |-> f.changeset.length,
                              fork |-> f.changeset.fork,
                              ancestors |-> f.changeset.ancestors],
            bitfield_update |-> f.bitfield_update]>>)>>

\* the header, into the slot the current header is not in
append_header_infos(c, f) ==
    <<StoreInfo_new_content("Oplog", f.header.seq % 2, <<f.header>>)>>

\* the flushes of an append, in order
append_writes(c, f) ==
    <<append_tree_infos(c, f), append_data_infos(c, f),
      append_bitfield_infos(c, f), append_entry_infos(c, f),
      append_header_infos(c, f)>>

\* storage.flush_infos(..).await? for each group of infos in turn
RECURSIVE flush_each(_, _)
flush_each(c, groups) ==
    IF groups = <<>> THEN [ok |-> c]
    ELSE Bind(Storage_flush_infos(c.storage, Head(groups)), LAMBDA r :
             IF "ok" \in DOMAIN r
             THEN flush_each([c EXCEPT !.storage = r.ok], Tail(groups))
             ELSE [err |-> Outcome(r), core |-> [c EXCEPT !.storage = r.storage]])

\* write the tree nodes and the blocks
append_flush_data(c, f) == flush_each(c, SubSeq(append_writes(c, f), 1, 2))

\* write the bitfield, the oplog entry and the header
append_flush_log(c, f) == flush_each(c, SubSeq(append_writes(c, f), 3, 5))

\* mark the new blocks present
append_bitfield(c, f) ==
    [c EXCEPT !.bitfield = @ \cup
        (f.bitfield_update.start ..
            f.bitfield_update.start + f.bitfield_update.length - 1)]

\* commit the changeset to the tree, field by field
append_commit_length(c, f) ==
    [c EXCEPT !.tree.roots = f.changeset.roots,
              !.tree.length = f.changeset.length,
              !.tree.nodes =
                  LET new == {f.changeset.nodes[k] :
                                 k \in 1..Len(f.changeset.nodes)}
                  IN  {n \in @ : \A m \in new : m.index # n.index} \cup new]

append_commit_rest(c, f) ==
    [c EXCEPT !.tree.byte_length = f.changeset.byte_length,
              !.tree.fork = f.changeset.fork,
              !.tree.signature = f.changeset.hash_and_signature.some[2],
              !.header = [seq |-> f.header.seq, entries |-> f.header.entries]]

\* emit the events of the append
append_emit(c, f) ==
    LET s1 == Events_send(c.events, DataUpgradeEvent)
        s2 == Events_send(s1.events, Have_from(f.bitfield_update))
    IN  [core  |-> [c EXCEPT !.events = s2.events],
         sends |-> <<s1.result, s2.result>>]

AppendOutcome(c) ==
    [length |-> c.tree.length, byte_length |-> c.tree.byte_length]

\* the commit of a staged append: the writes, then the state in memory
append_staged(c, f) ==
    Bind(append_flush_data(c, f), LAMBDA r1 :
        IF "err" \in DOMAIN r1
        THEN [core |-> r1.core, ret |-> [err |-> r1.err], sends |-> <<>>]
        ELSE Bind(append_flush_log(r1.ok, f), LAMBDA r2 :
            IF "err" \in DOMAIN r2
            THEN [core |-> r2.core, ret |-> [err |-> r2.err], sends |-> <<>>]
            ELSE Bind(append_commit_rest(
                          append_commit_length(append_bitfield(r2.ok, f), f), f),
                      LAMBDA c5 :
                Bind(append_emit(c5, f), LAMBDA e :
                    [core |-> e.core, ret |-> [ok |-> AppendOutcome(e.core)],
                     sends |-> e.sends]))))

Hypercore_append_batch(c, batch) ==
    IF c.key_pair.secret = None
    THEN [core |-> c, ret |-> [err |-> "NotWritable"], sends |-> <<>>]
    ELSE IF batch = <<>>
    THEN [core |-> c, ret |-> [ok |-> AppendOutcome(c)], sends |-> <<>>]
    ELSE Bind(append_stage(c, batch), LAMBDA f : append_staged(c, f))

RECURSIVE SumNodeLength(_)
SumNodeLength(nodes) ==
    IF nodes = <<>> THEN 0 ELSE Head(nodes).length + SumNodeLength(Tail(nodes))

NodeAt(nodes, index) == CHOOSE n \in nodes : n.index = index

HasNode(nodes, index) == \E n \in nodes : n.index = index

\* the bytes that precede node `index` below the root that covers it: the
\* lengths of the left siblings on the way up
RECURSIVE byte_offset_below(_, _, _)
byte_offset_below(nodes, roots, index) ==
    IF index \in roots THEN [ok |-> 0]
    ELSE IF flat_tree_sibling(index) > index
    THEN byte_offset_below(nodes, roots, flat_tree_parent(index))
    ELSE IF ~HasNode(nodes, flat_tree_sibling(index))
    THEN [err |-> "InvalidProof"]
    ELSE Bind(byte_offset_below(nodes, roots, flat_tree_parent(index)), LAMBDA up :
             IF "err" \in DOMAIN up THEN up
             ELSE [ok |-> up.ok + NodeAt(nodes, flat_tree_sibling(index)).length])

\* the root that covers node `index`
covering_root(roots, index) ==
    CHOOSE k \in 1..Len(roots) :
        /\ index <= flat_tree_right_span(roots[k].index)
        /\ \A j \in 1..(k - 1) : index > flat_tree_right_span(roots[j].index)

\* the byte range of block i, recovered by walking the tree from the root
\* that covers it down to leaf 2 * i
MerkleTree_byte_range(tree, i) ==
    IF ~HasNode(tree.nodes, 2 * i) THEN [err |-> "InvalidProof"]
    ELSE Bind(byte_offset_below(tree.nodes,
                  {tree.roots[k].index : k \in 1..Len(tree.roots)}, 2 * i),
              LAMBDA below :
        IF "err" \in DOMAIN below THEN below
        ELSE [ok |-> [index |-> below.ok + SumNodeLength(
                          SubSeq(tree.roots, 1, covering_root(tree.roots, 2 * i) - 1)),
                      length |-> NodeAt(tree.nodes, 2 * i).length]])

get_present(c, index) == index < c.tree.length /\ index \in c.bitfield

\* a miss: a Get event with a fresh completion channel, and None
get_miss(c, index) ==
    LET tx == c.chans + 1
    IN  [c EXCEPT !.events = Events_send_on_get(@, index, tx), !.chans = tx]

get_read(c, range) ==
    LET r == Storage_read_info(c.storage,
                 StoreInfoInstruction_new_content("Data", range.index, range.length))
    IN  IF "ok" \in DOMAIN r THEN [ok |-> Some(r.ok.data.some)] ELSE r

Hypercore_get(c, index) ==
    IF ~get_present(c, index)
    THEN [core |-> get_miss(c, index), ret |-> [ok |-> None]]
    ELSE LET range == MerkleTree_byte_range(c.tree, index)
         IN  IF "ok" \in DOMAIN range
             THEN [core |-> c, ret |-> get_read(c, range.ok)]
             ELSE [core |-> c, ret |-> range]

Hypercore_event_subscribe(c) ==
    LET r == new_receiver(c.events.channel)
    IN  [core |-> [c EXCEPT !.events.channel = r.channel], receiver |-> r.receiver]

(***************************************************************************)
(* State.                                                                  *)
(*   core      the Hypercore                                               *)
(*   rx        the subscriber's receiver (inactive until it subscribes)    *)
(*   received  history: what the subscriber's recv calls returned          *)
(*   batches   history: the batches appended, in order                     *)
(*   last      history: the last call on the core and what it returned     *)
(*   cs        a changeset driven directly (changeset specification)       *)
(*   mutex     the owner of the SharedCore's mutex (shared-core spec.)      *)
(*   tasks     the position of each task inside its SharedCore call        *)
(*   io        a Storage driven directly, and its last request and result  *)
(*   nd        a pair of Nodes built by the constructors of node.rs        *)
(*   mf        a buffer given to the manifest decoder, and the result      *)
(*   peer      a second core that holds the public key only, and its last  *)
(*             call (replication specification)                            *)
(***************************************************************************)
VARIABLES core, rx, received, batches, last, cs, mutex, tasks, io, nd, mf, peer

vars == <<core, rx, received, batches, last, cs, mutex, tasks, io, nd, mf, peer>>

shared == <<mutex, tasks>>

pure == <<io, nd, mf, peer>>

NoIo == [op |-> "none"]

NoNodes == [nodes |-> <<>>, by |-> <<>>, stored |-> None, parsed |-> None]

NoManifest == [decoded |-> FALSE]

NoPeer == [op |-> "none"]

PureIdle == io = NoIo /\ nd = NoNodes /\ mf = NoManifest /\ peer = NoPeer

Tasks == {"t1", "t2"}

NoOwner == "none"

Idle == [pc |-> "idle", op |-> "none", arg |-> <<>>, phase |-> 0,
         overlapped |-> "none", frame |-> <<>>]

Nobody == [task |-> "none", overlapped |-> "none"]

Sent == core.events.channel.log

Queue == core.events.channel.queue

NoCall ==
    [op |-> "none", arg |-> <<>>, pre |-> Hypercore_info(Hypercore_new),
     pre_bitfield |-> {}, pre_sent |-> 0, pre_queue |-> 0, pre_active |-> FALSE,
     pre_received |-> 0,
     by |-> Nobody, ret |-> [ok |-> None], sends |-> <<>>]

Call(op, arg, ret, sends) ==
    [op |-> op, arg |-> arg, pre |-> Hypercore_info(core),
     pre_bitfield |-> core.bitfield, pre_sent |-> Len(Sent),
     pre_queue |-> Len(Queue), pre_active |-> rx.active,
     pre_received |-> Len(received),
     by |-> Nobody, ret |-> ret, sends |-> sends]

NoReceiver == [active |-> FALSE, pos |-> 0]

\* a new core; a subscriber may have subscribed right after construction
Init ==
    /\ \E subscribed \in BOOLEAN :
           IF subscribed
           THEN LET r == Hypercore_event_subscribe(Hypercore_new)
                IN  core = r.core /\ rx = r.receiver
           ELSE core = Hypercore_new /\ rx = NoReceiver
    /\ received = <<>>
    /\ batches = <<>>
    /\ last = NoCall
    /\ cs = MerkleTreeChangeset_new(0, 0, 0, <<>>)
    /\ mutex = NoOwner
    /\ tasks = [t \in Tasks |-> Idle]
    /\ PureIdle

Batches(n) ==
    UNION {[1..k -> BlockValues] : k \in 1..n}

AppendBatch(batch) ==
    \E r \in {Hypercore_append_batch(core, batch)} :
        /\ core' = r.core
        /\ batches' = Append(batches, batch)
        /\ last' = Call("append", batch, r.ret, r.sends)
        /\ UNCHANGED <<rx, received, cs, shared, pure>>

Get(index, maxMiss) ==
    \E r \in {Hypercore_get(core, index)} :
        /\ get_present(core, index) \/ core.chans < maxMiss
        /\ core' = r.core
        /\ last' = Call("get", index, r.ret, <<>>)
        /\ UNCHANGED <<rx, received, batches, cs, shared, pure>>

Subscribe ==
    /\ ~rx.active
    /\ LET r == Hypercore_event_subscribe(core)
       IN  /\ core' = r.core
           /\ rx' = r.receiver
    /\ last' = Call("subscribe", <<>>, [ok |-> None], <<>>)
    /\ UNCHANGED <<received, batches, cs, shared, pure>>

\* rx.recv().await: waits while the queue is empty
Recv ==
    /\ rx.active
    /\ LET r == try_recv(core.events.channel, rx)
       IN  /\ "empty" \notin DOMAIN r.res
           /\ core' = [core EXCEPT !.events.channel = r.channel]
           /\ rx' = r.receiver
           /\ received' = Append(received, r.res)
           /\ last' = Call("recv", <<>>, [ok |-> Some(r.res)], <<>>)
    /\ UNCHANGED <<batches, cs, shared, pure>>

AppendCall ==
    \E batch \in Batches(MaxBlocks) :
        /\ Len(Concat(batches)) + Len(batch) <= MaxBlocks
        /\ AppendBatch(batch)

GetCall == \E index \in 0..(core.tree.length + 1) : Get(index, MaxGetMiss)

Next == AppendCall \/ GetCall

Spec == Init /\ [][Next]_vars

(***************************************************************************)
(* Properties of the sequential specification.                             *)
(***************************************************************************)
Log == Concat(batches)

\* the events the last call handed to Events::send
Emitted == SubSeq(Sent, last.pre_sent + 1, Len(Sent))

\* the events the last call added to the subscriber's queue
Enqueued == SubSeq(Queue, last.pre_queue + 1, Len(Queue))

HaveEvent(start, length, drop) ==
    [type |-> "Have", start |-> start, length |-> length, drop |-> drop]

\* C1: after the blocks b0..b(n-1) were appended in order to an empty
\* writable core, in one or several append calls, get(i) returns exactly b_i
\* for every i < n, and block i lies in the data store at the byte offset
\* that is the sum of the lengths of the blocks 0..i-1.
C1_AppendGetRoundTrip ==
    /\ core.tree.length = Len(Log)
    /\ Len(core.storage.Data) = SumLen(Log)
    /\ \A i \in 0..(Len(Log) - 1) :
          LET offset == SumLen(SubSeq(Log, 1, i))
          IN  /\ Hypercore_get(core, i).ret = [ok |-> Some(Log[i + 1])]
              /\ SubSeq(core.storage.Data, offset + 1, offset + Len(Log[i + 1]))
                     = Log[i + 1]
              /\ MerkleTree_byte_range(core.tree, i)
                     = [ok |-> [index |-> offset, length |-> Len(Log[i + 1])]]
    /\ (last.op = "get" /\ last.arg < Len(Log))
          => last.ret = [ok |-> Some(Log[last.arg + 1])]

\* three blocks appended in two calls, and get(2) has just returned the third
C1_Witness ==
    /\ batches = <<<<Hello>>, <<<<>>, World>>>>
    /\ last.op = "get" /\ last.arg = 2
    /\ last.ret = [ok |-> Some(World)]

C6_AppendEvents ==
    (last.op = "append" /\ "ok" \in DOMAIN last.ret /\ Len(last.arg) >= 1) =>
        LET two == <<DataUpgradeEvent,
                     HaveEvent(last.pre.length, Len(last.arg), FALSE)>>
        IN  /\ Emitted = two
            /\ rx.active => Enqueued = two
            /\ ~rx.active => Queue = <<>>

\* a batch of two blocks appended to a core of length 1 with a subscriber
C6_Witness ==
    /\ last.op = "append" /\ "ok" \in DOMAIN last.ret
    /\ last.pre.length = 1 /\ Len(last.arg) = 2
    /\ rx.active
    /\ Len(Queue) = 4

SubscribedFromStart == rx.active /\ rx.pos = 0

S1State ==
    /\ core.tree.length = 2
    /\ core.tree.byte_length = 13
    /\ Hypercore_get(core, 0).ret = [ok |-> Some(Hello)]
    /\ Hypercore_get(core, 1).ret = [ok |-> Some(World)]

\* C7 as stated: after "Hello, " and then "world!" were appended to an empty
\* core, the subscriber has observed one DataUpgrade and one Have{0,2,false}.
C7_S1_AsStated ==
    (batches = <<<<Hello>>, <<World>>>> /\ core.chans = 0 /\ SubscribedFromStart)
        => /\ S1State
           /\ Queue = <<DataUpgradeEvent, HaveEvent(0, 2, FALSE)>>

\* C7 amended: after "Hello, " and then "world!" were appended to an empty
\* core, length = 2, byte_length = 13, get(0) = "Hello, ", get(1) = "world!";
\* the subscriber observes DataUpgrade, Have{0,1,false}, DataUpgrade,
\* Have{1,1,false} when they were appended by two calls, and one DataUpgrade
\* and one Have{0,2,false} when they were appended as one batch.
C7_S1_Amended ==
    /\ (batches = <<<<Hello>>, <<World>>>> /\ core.chans = 0)
          => /\ S1State
             /\ SubscribedFromStart =>
                   Queue = <<DataUpgradeEvent, HaveEvent(0, 1, FALSE),
                             DataUpgradeEvent, HaveEvent(1, 1, FALSE)>>
    /\ (batches = <<<<Hello, World>>>> /\ core.chans = 0)
          => /\ S1State
             /\ SubscribedFromStart =>
                   Queue = <<DataUpgradeEvent, HaveEvent(0, 2, FALSE)>>

C7_Witness ==
    /\ batches = <<<<Hello>>, <<World>>>>
    /\ core.chans = 0
    /\ SubscribedFromStart
    /\ Len(Queue) = 4

\* C8: get(i) returns Some(block) iff i < length and the bitfield marks
\* block i present; otherwise it returns None and hands exactly one Get
\* event carrying index i and a fresh completion sender to the bus; a get
\* that hits emits no event.
C8_GetOnMiss ==
    last.op = "get" =>
        LET i       == last.arg
            present == i < last.pre.length /\ i \in last.pre_bitfield
        IN  /\ "ok" \in DOMAIN last.ret
            /\ ("some" \in DOMAIN last.ret.ok) <=> present
            /\ present => Emitted = <<>> /\ Enqueued = <<>>
            /\ ~present =>
                  /\ last.ret = [ok |-> None]
                  /\ Emitted = <<GetEvent(i, core.chans)>>
                  /\ \A k \in 1..(Len(Sent) - 1) :
                        Sent[k].type = "Get" => Sent[k].get_result # core.chans
                  /\ rx.active => Enqueued = Emitted

\* get(1) on a core of length 1 missed, with a subscriber
C8_Witness ==
    /\ last.op = "get" /\ last.arg = 1 /\ last.pre.length = 1
    /\ last.ret = [ok |-> None]
    /\ rx.active
    /\ Queue[Len(Queue)] = GetEvent(1, 1)

(***************************************************************************)
(* The changeset specification: one MerkleTreeChangeset, created empty     *)
(* with any fork, appended to, signed, and re-created from the state it    *)
(* has reached (as the tree does after a commit).                          *)
(***************************************************************************)
InitChangeset ==
    /\ core = Hypercore_new
    /\ rx = NoReceiver
    /\ received = <<>>
    /\ batches = <<>>
    /\ last = NoCall
    /\ \E fork \in 0..1 : cs = MerkleTreeChangeset_new(0, 0, fork, <<>>)
    /\ mutex = NoOwner
    /\ tasks = [t \in Tasks |-> Idle]
    /\ PureIdle

\* a call on the changeset, with the changeset and the core it found
CsCall(op, arg, ret) ==
    [op |-> op, arg |-> arg, ret |-> ret, pre |-> cs, pre_core |-> core]

CsAppend ==
    /\ cs.length < MaxLeaves
    /\ \E data \in BlockValues :
           /\ cs' = MerkleTreeChangeset_append(cs, data)
           /\ last' = CsCall("append", data,
                             MerkleTreeChangeset_append_len(cs, data))
           /\ batches' = Append(batches, <<data>>)
    /\ UNCHANGED <<core, rx, received, shared, pure>>

CsHashAndSign ==
    /\ cs' = MerkleTreeChangeset_hash_and_sign(cs, PublicKey, SecretKey)
    /\ last' = CsCall("hash_and_sign", <<>>, None)
    /\ UNCHANGED <<core, rx, received, batches, shared, pure>>

CsNew ==
    /\ cs' = MerkleTreeChangeset_new(cs.length, cs.byte_length, cs.fork, cs.roots)
    /\ last' = CsCall("new", <<>>, None)
    /\ UNCHANGED <<core, rx, received, batches, shared, pure>>

NextChangeset == CsAppend \/ CsHashAndSign \/ CsNew

SpecChangeset == InitChangeset /\ [][NextChangeset]_vars

RECURSIVE LargestPow2(_)
LargestPow2(n) == IF n < 2 THEN 1 ELSE 2 * LargestPow2(n \div 2)

\* the roots of the perfect subtrees covering n leaves from leaf `first` on
RECURSIVE FullRootsFrom(_, _)
FullRootsFrom(n, first) ==
    IF n = 0 THEN <<>>
    ELSE LET p == LargestPow2(n)
         IN  <<2 * first + p - 1>> \o FullRootsFrom(n - p, first + p)

FullRoots(length) == FullRootsFrom(length, 0)

\* C2: for a changeset created from a consistent state (new(0, 0, fork, [])
\* or the state an earlier changeset reached) and after any sequence of
\* appends, the indices of roots are exactly the flat-tree full roots for
\* `length` leaves, in strictly ascending order, and the root lengths sum to
\* byte_length.
C2_RootSetInvariant ==
    /\ [k \in 1..Len(cs.roots) |-> cs.roots[k].index] = FullRoots(cs.length)
    /\ \A k \in 1..(Len(cs.roots) - 1) : cs.roots[k].index < cs.roots[k + 1].index
    /\ SumNodeLength(cs.roots) = cs.byte_length

\* five leaves, the last two appended to a changeset created at length 3:
\* the roots are the subtree of four leaves and the fifth leaf
C2_Witness ==
    /\ cs.length = 5 /\ cs.ancestors = 3
    /\ Len(cs.roots) = 2
    /\ cs.roots[1].index = 3 /\ cs.roots[2].index = 8
    /\ cs.byte_length = 13

(***************************************************************************)
(* The event-queue specification: a core whose subscriber may subscribe    *)
(* late and may stop receiving.  A run sends events through calls of one   *)
(* kind, get calls that miss or appends of one block, until more events    *)
(* were sent than the queue holds.                                         *)
(***************************************************************************)
MaxEvents == MAX_EVENT_QUEUE_CAPACITY + MaxOverflow

InitQueue ==
    /\ core = Hypercore_new
    /\ rx = NoReceiver
    /\ received = <<>>
    /\ batches = <<>>
    /\ last = NoCall
    /\ cs = MerkleTreeChangeset_new(0, 0, 0, <<>>)
    /\ mutex = NoOwner
    /\ tasks = [t \in Tasks |-> Idle]
    /\ PureIdle

QGetMiss ==
    /\ batches = <<>>
    /\ Get(core.tree.length, MaxEvents)

QAppend ==
    /\ core.chans = 0
    /\ Len(Sent) + 2 <= MaxEvents
    /\ AppendBatch(<<Hello>>)

NextQueue == QGetMiss \/ QAppend \/ Subscribe \/ Recv

SpecQueue == InitQueue /\ [][NextQueue]_vars

\* the messages among what the subscriber's recv calls returned
RECURSIVE Messages(_)
Messages(rs) ==
    IF rs = <<>> THEN <<>>
    ELSE IF "msg" \in DOMAIN Head(rs) THEN <<Head(rs).msg>> \o Messages(Tail(rs))
    ELSE Messages(Tail(rs))

\* s is t with some elements left out
RECURSIVE IsSubsequence(_, _)
IsSubsequence(s, t) ==
    IF s = <<>> THEN TRUE
    ELSE IF t = <<>> THEN FALSE
    ELSE IF Head(s) = Head(t) THEN IsSubsequence(Tail(s), Tail(t))
    ELSE IsSubsequence(s, Tail(t))

Min(a, b) == IF a < b THEN a ELSE b

SampleEvents ==
    {DataUpgradeEvent, HaveEvent(0, 1, FALSE), GetEvent(0, core.chans + 1)}

\* C10: Events::send returns Ok without waiting in every reachable state of
\* the bus, with no active subscriber, with a subscriber that does not
\* receive and with a full queue; so an append or a get on the core returns
\* whatever the subscriber does.
C10_NoBackpressure ==
    /\ \A evt \in SampleEvents : Events_send(core.events, evt).result = "Ok"
    /\ \A k \in 1..Len(last.sends) : last.sends[k] = "Ok"
    /\ last.op \in {"append", "get"} => "ok" \in DOMAIN last.ret
    /\ "ok" \in DOMAIN Hypercore_append_batch(core, <<Hello>>).ret
    /\ Hypercore_get(core, core.tree.length).ret = [ok |-> None]

\* an append returned although 32 events were queued for a subscriber that
\* has missed events, after events were sent with no subscriber at all
C10_Witness ==
    /\ last.op = "append" /\ "ok" \in DOMAIN last.ret
    /\ last.pre_active /\ last.pre_queue = 32
    /\ rx.pos < core.events.channel.head_pos
    /\ core.events.channel.head_pos + Len(Queue) < Len(Sent)

(***************************************************************************)
(* replication.rs: SharedCore, a Hypercore behind Arc<Mutex<..>>.  Every   *)
(* method is  `let core = self.0.lock().await; core.method(..).await`:     *)
(* the guard lives until the async block returns.                          *)
(*                                                                         *)
(* The shared-core specification runs the methods from two tasks.  A call  *)
(* takes the steps: call, lock, then the phases of the Hypercore call,     *)
(* the last of which returns and drops the guard.                          *)
(***************************************************************************)
\* mutant: the guard is a temporary of the lock statement and is dropped at
\* its end, before the Hypercore call
SharedCore_lock_dropped(m, t) == m

\* the mutex after `self.0.lock().await` of task t: the guard is held
SharedCore_lock(m, t) == t

\* mutant: the guard is leaked, the mutex stays held after the return
SharedCore_unlock_leaked(m, t) == m

\* the mutex after the guard of task t went out of scope
SharedCore_unlock(m, t) == IF m = t THEN NoOwner ELSE m

\* mutant: lock() completes whether or not the mutex is held
Mutex_can_lock_always(m) == TRUE

\* tokio::sync::Mutex::lock: ready only when nobody holds the mutex
Mutex_can_lock(m) == m = NoOwner

\* the methods whose effect on the core is outside this model: only their
\* locking is modelled
OpaqueOps ==
    {"verify_and_apply_proof", "missing_nodes", "create_proof",
     "on_append_subscribe", "on_get_subscribe"}

\* the calls whose return value the history variable `last` records
ObservedOps == {"info", "get", "append"}

SharedCalls ==
    {[op |-> "info", arg |-> <<>>], [op |-> "key_pair", arg |-> <<>>]}
    \cup {[op |-> o, arg |-> <<>>] : o \in OpaqueOps}
    \cup {[op |-> "get", arg |-> i] : i \in 0..1}
    \cup {[op |-> "append", arg |-> b] : b \in {Hello, World}}

InFlight(op) == {t \in Tasks : tasks[t].pc # "idle" /\ tasks[t].op = op}

InitShared ==
    /\ core = Hypercore_new
    /\ rx = NoReceiver
    /\ received = <<>>
    /\ batches = <<>>
    /\ last = NoCall
    /\ cs = MerkleTreeChangeset_new(0, 0, 0, <<>>)
    /\ mutex = NoOwner
    /\ tasks = [t \in Tasks |-> Idle]
    /\ PureIdle

\* a task calls a method: the async block starts and reaches lock().await
TaskCall(t) ==
    /\ tasks[t].pc = "idle"
    /\ \E c \in SharedCalls :
          /\ c.op = "append" =>
                Len(Log) + Cardinality(InFlight("append")) < MaxSharedBlocks
          /\ c.op = "get" =>
                core.chans + Cardinality(InFlight("get")) < MaxGetMiss
          /\ tasks' = [tasks EXCEPT ![t] =
                [pc |-> "lock", op |-> c.op, arg |-> c.arg, phase |-> 0,
                 overlapped |-> IF mutex # NoOwner
                                   /\ tasks[mutex].op = "append"
                                THEN "append" ELSE "none",
                 frame |-> <<>>]]
    /\ UNCHANGED <<core, rx, received, batches, last, cs, mutex, pure>>

\* lock().await completes
TaskLock(t) ==
    /\ tasks[t].pc = "lock"
    /\ Mutex_can_lock(mutex)
    /\ mutex' = SharedCore_lock(mutex, t)
    /\ tasks' = [tasks EXCEPT ![t].pc = "body", ![t].phase = 1]
    /\ UNCHANGED <<core, rx, received, batches, last, cs, pure>>

\* the Hypercore call goes on to its next phase
Proceed(t, c, f) ==
    /\ core' = c
    /\ tasks' = [tasks EXCEPT ![t].phase = @ + 1, ![t].frame = f]
    /\ UNCHANGED <<last, mutex>>

\* the Hypercore call returns; the guard is dropped
Return(t, c, ret) ==
    /\ core' = c
    /\ tasks' = [tasks EXCEPT ![t] = Idle]
    /\ mutex' = SharedCore_unlock(mutex, t)
    /\ last' = IF tasks[t].op \in ObservedOps
               THEN [Call(tasks[t].op, tasks[t].arg, ret, <<>>) EXCEPT
                       !.by = [task |-> t,
                               overlapped |-> tasks[t].overlapped]]
               ELSE last

AppendPhase(t) ==
    LET tk == tasks[t]
        f  == tk.frame
    IN  /\ tk.op = "append"
        /\ CASE tk.phase = 1 ->
                  IF core.key_pair.secret = None
                  THEN Return(t, core, [err |-> "NotWritable"])
                       /\ UNCHANGED batches
                  ELSE LET g == append_stage(core, <<tk.arg>>)
                           r == append_flush_data(core, g)
                       IN  /\ IF "ok" \in DOMAIN r
                              THEN Proceed(t, r.ok, g)
                              ELSE Return(t, r.core, [err |-> r.err])
                           /\ UNCHANGED batches
             [] tk.phase = 2 ->
                  LET r == append_flush_log(core, f)
                  IN  /\ IF "ok" \in DOMAIN r
                         THEN Proceed(t, append_bitfield(r.ok, f), f)
                         ELSE Return(t, r.core, [err |-> r.err])
                      /\ UNCHANGED batches
             [] tk.phase = 3 ->
                  Proceed(t, append_commit_length(core, f), f) /\ UNCHANGED batches
             [] tk.phase = 4 ->
                  /\ Proceed(t, append_commit_rest(core, f), f)
                  /\ batches' = Append(batches, f.batch)
             [] OTHER ->
                  LET e == append_emit(core, f)
                  IN  Return(t, e.core, [ok |-> AppendOutcome(e.core)])
                      /\ UNCHANGED batches

GetPhase(t) ==
    LET tk == tasks[t]
    IN  /\ tk.op = "get"
        /\ UNCHANGED batches
        /\ IF tk.phase = 1
           THEN IF ~get_present(core, tk.arg)
                THEN Return(t, get_miss(core, tk.arg), [ok |-> None])
                ELSE LET range == MerkleTree_byte_range(core.tree, tk.arg)
                     IN  IF "ok" \in DOMAIN range
                         THEN Proceed(t, core, range.ok)
                         ELSE Return(t, core, range)
           ELSE Return(t, core, get_read(core, tk.frame))

SyncPhase(t) ==
    LET tk == tasks[t]
    IN  /\ tk.op \notin {"append", "get"}
        /\ UNCHANGED batches
        /\ Return(t, core,
                  CASE tk.op = "info" -> [ok |-> Hypercore_info(core)]
                    [] tk.op = "key_pair" -> [ok |-> core.key_pair]
                    [] OTHER -> [ok |-> "unmodelled"])

\* one phase of the Hypercore call of task t
TaskStep(t) ==
    /\ tasks[t].pc = "body"
    /\ AppendPhase(t) \/ GetPhase(t) \/ SyncPhase(t)
    /\ UNCHANGED <<rx, received, cs, pure>>

SomeTaskCalls == \E t \in Tasks : TaskCall(t)

SomeTaskLocks == \E t \in Tasks : TaskLock(t)

SomeTaskSteps == \E t \in Tasks : TaskStep(t)

NextShared == SomeTaskCalls \/ SomeTaskLocks \/ SomeTaskSteps

SpecShared == InitShared /\ [][NextShared]_vars

InCore == {t \in Tasks : tasks[t].pc = "body"}

\* C4: under every interleaving of the tasks at most one SharedCore
\* operation is inside its Hypercore call, and that operation holds the
\* mutex from the first phase of the call to its return.
C4_MutualExclusion ==
    /\ Cardinality(InCore) <= 1
    /\ \A t \in InCore : mutex = t

\* one task is in the middle of an append while the other one, which called
\* in the meantime, waits for the lock
C4_Witness ==
    \E t, u \in Tasks :
        /\ tasks[t].pc = "body" /\ tasks[t].op = "append" /\ tasks[t].phase = 4
        /\ tasks[u].pc = "lock" /\ tasks[u].overlapped = "append"

\* the committed states of the core: the Info after each prefix of the
\* batches appended so far
SnapshotAfter(k) ==
    LET log == Concat(SubSeq(batches, 1, k))
    IN  [length |-> Len(log), byte_length |-> SumLen(log), fork |-> 0,
         writeable |-> TRUE]

Snapshots == {SnapshotAfter(k) : k \in 0..Len(batches)}

IoStores == {"Tree", "Data"}

IoData == {<<7>>, <<8, 9>>}

IoInfos ==
    UNION {
        {StoreInfo_new_content(s, i, d) : d \in IoData}
        \cup {StoreInfo_new_content_miss(s, i), StoreInfo_new_delete(s, i, 1),
              StoreInfo_new_truncate(s, i), StoreInfo_new_size(s, i, 1)}
        : <<s, i>> \in IoStores \X (0..MaxIndex)}

IoInstructions ==
    UNION {
        {StoreInfoInstruction_new_content(s, i, 2),
         StoreInfoInstruction_new_content_allow_miss(s, i, 2),
         StoreInfoInstruction_new_all_content(s),
         StoreInfoInstruction_new_size(s, i)}
        : <<s, i>> \in IoStores \X (0..MaxIndex)}

SeqsUpTo(S, n) == UNION {[1..k -> S] : k \in 1..n}

InitStorage ==
    /\ core = Hypercore_new
    /\ rx = NoReceiver
    /\ received = <<>>
    /\ batches = <<>>
    /\ last = NoCall
    /\ cs = MerkleTreeChangeset_new(0, 0, 0, <<>>)
    /\ mutex = NoOwner
    /\ tasks = [t \in Tasks |-> Idle]
    /\ nd = NoNodes
    /\ mf = NoManifest
    /\ peer = NoPeer
    /\ \E tree \in {<<>>, <<1, 2, 3>>}, data \in {<<>>, <<4, 5>>},
          broken \in {{}, {"Data"}}, writes_left \in {-1, 1},
          overflow_checks \in BOOLEAN :
          io = [op |-> "none",
                storage |-> [Storage_new_memory EXCEPT
                                !.Tree = tree, !.Data = data,
                                !.broken = broken,
                                !.writes_left = writes_left,
                                !.overflow_checks = overflow_checks]]

IoFlush ==
    /\ io.op = "none"
    /\ \E infos \in SeqsUpTo(IoInfos, MaxInfos) :
          LET r == Storage_flush_infos(io.storage, infos)
          IN  io' = [op |-> "flush_infos", arg |-> infos,
                     before |-> io.storage,
                     storage |-> IF "ok" \in DOMAIN r THEN r.ok ELSE r.storage,
                     result |-> Outcome(r), infos |-> <<>>]
    /\ UNCHANGED <<core, rx, received, batches, last, cs, shared, nd, mf, peer>>

IoRead ==
    /\ io.op = "none"
    /\ \E instructions \in SeqsUpTo(IoInstructions, MaxInfos) \cup {<<>>} :
          \E r \in {Storage_read_infos(io.storage, instructions)} :
              io' = [op |-> "read_infos", arg |-> instructions,
                     before |-> io.storage, storage |-> io.storage,
                     result |-> Outcome(r),
                     infos |-> IF "ok" \in DOMAIN r THEN r.ok ELSE <<>>,
                     calls |-> r.calls]
    /\ UNCHANGED <<core, rx, received, batches, last, cs, shared, nd, mf, peer>>

\* Storage::open or Storage::new_disk on backends that hold the bytes of
\* io.storage and some bytes in the bitfield and oplog stores
IoOpen ==
    /\ io.op = "none"
    /\ \E overwrite \in BOOLEAN, disk \in BOOLEAN,
          uncreatable \in {{}} \cup {{s} : s \in Stores},
          bitfield \in {<<>>, <<1>>}, oplog \in {<<>>, <<6, 6>>} :
          \E medium \in {[io.storage EXCEPT !.Bitfield = bitfield,
                                            !.Oplog = oplog]} :
          \E r \in {IF disk THEN Storage_new_disk(medium, uncreatable, overwrite)
                              ELSE Storage_open(medium, uncreatable, overwrite)} :
              io' = [op |-> "open",
                     arg |-> [overwrite |-> overwrite, disk |-> disk,
                              uncreatable |-> uncreatable],
                     before |-> medium,
                     storage |-> IF "ok" \in DOMAIN r THEN r.ok ELSE r.storage,
                     result |-> Outcome(r), created |-> r.created]
    /\ UNCHANGED <<core, rx, received, batches, last, cs, shared, nd, mf, peer>>

NextStorage == IoFlush \/ IoRead \/ IoOpen

SpecStorage == InitStorage /\ [][NextStorage]_vars

\* the backend read of a Content instruction is out of bounds
OutOfBounds(storage, ins) ==
    /\ ins.length # None
    /\ ins.index + ins.length.some > Len(storage[ins.store])

\* the instruction whose read fails: the backend is broken, or the read is
\* out of bounds and a miss is not allowed
ReadFails(storage, ins) ==
    \/ ins.store \in storage.broken
    \/ ins.info_type = "Content" /\ OutOfBounds(storage, ins) /\ ~ins.allow_miss

\* the Size instruction whose subtraction length - index panics
SizePanics(storage, ins) ==
    /\ ins.info_type = "Size"
    /\ ins.store \notin storage.broken
    /\ ins.index > Len(storage[ins.store])
    /\ storage.overflow_checks

\* C13: read_infos returns for a Content instruction an info with
\* miss = true, without data and length, iff the backend read was out of
\* bounds and the instruction allows a miss; an out-of-bounds read without
\* allow_miss is the error InvalidOperation; a failing backend is an error
\* also when allow_miss is set; no returned miss belongs to an instruction
\* without allow_miss.  (The request ends at the first instruction that
\* fails, be it a read that fails or a Size instruction that panics.)
C13_MissConversion ==
    io.op = "read_infos" =>
        LET st    == io.before
            fails == {k \in 1..Len(io.arg) : ReadFails(st, io.arg[k])}
            stops == fails \cup {k \in 1..Len(io.arg) : SizePanics(st, io.arg[k])}
        IN  /\ (io.result = "Ok") <=> (stops = {})
            /\ stops # {} =>
                  LET k == CHOOSE j \in stops : \A i \in stops : j <= i
                  IN  k \in fails =>
                         io.result =
                            IF io.arg[k].store \in st.broken
                            THEN "IO" ELSE "InvalidOperation"
            /\ io.result = "Ok" =>
                  /\ Len(io.infos) = Len(io.arg)
                  /\ \A k \in 1..Len(io.arg) :
                        LET ins  == io.arg[k]
                            info == io.infos[k]
                        IN  /\ info.store = ins.store /\ info.index = ins.index
                            /\ ins.info_type = "Content" =>
                                  /\ info.miss <=>
                                        (OutOfBounds(st, ins) /\ ins.allow_miss)
                                  /\ info.miss =>
                                        info.data = None /\ info.length = None
                                  /\ ~info.miss =>
                                        /\ info.data # None
                                        /\ info.data.some =
                                              SubSeq(st[ins.store], ins.index + 1,
                                                     ins.index + Len(info.data.some))
                            /\ info.miss => ins.allow_miss

\* two instructions were read: the first returned its bytes, the second,
\* out of bounds with allow_miss, a miss
C13_Witness ==
    /\ io.op = "read_infos" /\ io.result = "Ok" /\ Len(io.infos) = 2
    /\ ~io.infos[1].miss /\ io.infos[1].data = Some(<<2, 3>>)
    /\ io.infos[2].miss /\ io.arg[2].allow_miss

\* the backend calls a request has made
Journal == SubSeq(io.storage.journal, Len(io.before.journal) + 1,
                  Len(io.storage.journal))

IsWrite(info) == info.info_type = "Content" /\ ~info.miss /\ info.data # None

IsDelete(info) == info.info_type = "Content" /\ info.miss /\ info.length # None

IsTruncate(info) == info.info_type = "Size" /\ info.miss

\* C14: a flush_infos that returns Ok has made exactly one backend call per
\* StoreInfo, in the order of the infos and on the store each names: write
\* (index, data) for Content with miss = false and data, del(index, length)
\* for Content with miss = true and a length, truncate(index) for Size with
\* miss = true; a store no info names keeps its bytes; after a single info,
\* written data is in the store at its index and a truncated store has the
\* length index.
C14_WriteProtocol ==
    (io.op = "flush_infos" /\ io.result = "Ok") =>
        /\ Len(Journal) = Len(io.arg)
        /\ \A k \in 1..Len(io.arg) :
              LET info == io.arg[k]
                  call == Journal[k]
              IN  /\ call.store = info.store /\ call.index = info.index
                  /\ IsWrite(info) =>
                        call.op = "write" /\ call.length = Len(info.data.some)
                  /\ IsDelete(info) =>
                        call.op = "del" /\ call.length = info.length.some
                  /\ IsTruncate(info) => call.op = "truncate"
                  /\ IsWrite(info) \/ IsDelete(info) \/ IsTruncate(info)
        /\ \A s \in Stores :
              (\A k \in 1..Len(io.arg) : io.arg[k].store # s)
                  => io.storage[s] = io.before[s]
        /\ Len(io.arg) = 1 =>
              LET info  == io.arg[1]
                  bytes == io.storage[info.store]
              IN  /\ IsWrite(info) =>
                        SubSeq(bytes, info.index + 1,
                               info.index + Len(info.data.some)) = info.data.some
                  /\ IsTruncate(info) => Len(bytes) = info.index
                  /\ IsDelete(info) =>
                        \A j \in (info.index + 1)..Len(bytes) :
                            j <= info.index + info.length.some => bytes[j] = 0

\* a write to the data store and a delete in the tree store were flushed in
\* one request
C14_Witness ==
    /\ io.op = "flush_infos" /\ io.result = "Ok" /\ Len(io.arg) = 2
    /\ IsWrite(io.arg[1]) /\ io.arg[1].store = "Data"
    /\ IsDelete(io.arg[2]) /\ io.arg[2].store = "Tree"
    /\ io.before.Tree = <<1, 2, 3>> /\ io.storage.Tree # io.before.Tree

Inconsistent(info) == ~(IsWrite(info) \/ IsDelete(info) \/ IsTruncate(info))

\* C15 as stated: flushing a StoreInfo that is not a well-formed write,
\* delete or truncate returns the error InvalidOperation and changes no
\* store.
C15_InconsistentInfoIsError ==
    (io.op = "flush_infos" /\ Len(io.arg) = 1 /\ Inconsistent(io.arg[1])) =>
        /\ io.result = "InvalidOperation"
        /\ \A s \in Stores : io.storage[s] = io.before[s]

(***************************************************************************)
(* The manifest specification: a buffer of up to 68 bytes is decoded.      *)
(***************************************************************************)
\* a whole encoded manifest with the given identifier bytes, and one byte more
EncodedManifest(version, hash_id, manifest_type, signature_id) ==
    <<version, hash_id, manifest_type, signature_id>>
        \o Fill(32, 5) \o Fill(32, 6) \o <<9>>

BufferLengths == {0, 1, 2, 3, 4, 35, 36, 66, 67, 68}

InitManifest ==
    /\ core = Hypercore_new
    /\ rx = NoReceiver
    /\ received = <<>>
    /\ batches = <<>>
    /\ last = NoCall
    /\ cs = MerkleTreeChangeset_new(0, 0, 0, <<>>)
    /\ mutex = NoOwner
    /\ tasks = [t \in Tasks |-> Idle]
    /\ io = NoIo
    /\ nd = NoNodes
    /\ peer = NoPeer
    /\ \E v, h, t, g \in 0..MaxId, n \in BufferLengths :
          mf = [decoded |-> FALSE, encoded |-> None,
                buffer |-> SubSeq(EncodedManifest(v, h, t, g), 1, n)]

DecodeManifest ==
    /\ ~mf.decoded
    /\ mf' = [decoded |-> TRUE, encoded |-> mf.encoded, buffer |-> mf.buffer,
              result |-> Manifest_decode(mf.buffer)]
    /\ UNCHANGED <<core, rx, received, batches, last, cs, shared, io, nd, peer>>

\* the manifests encoded: known and unknown names of the hash and of the
\* signature, two namespaces and two public keys
Manifests ==
    {[hash |-> h, signer |-> [signature |-> g, namespace |-> ns, public_key |-> pk]] :
        h \in {"blake2b", "sha256"}, g \in {"ed25519", "secp256k1"},
        ns \in {Zeros(32), Fill(32, 5)},
        pk \in {Fill(32, 6), [k \in 1..32 |-> k]}}

\* Manifest::encode into a buffer of encoded_size bytes, or more, that
\* holds the byte 255 throughout; the buffer then holds what was written
EncodeManifest ==
    /\ ~mf.decoded /\ mf.encoded = None
    /\ \E manifest \in Manifests, more \in 0..MaxId :
          \E buffer \in {Fill(Manifest_encoded_size + more, 255)} :
          \E r \in {Manifest_encode(manifest, buffer)} :
          \E written \in {IF "ok" \in DOMAIN r THEN r.ok ELSE r.written} :
              mf' = [decoded |-> FALSE,
                     encoded |-> Some([manifest |-> manifest, given |-> buffer,
                                       result |-> r]),
                     buffer |-> written \o SubSeq(buffer, Len(written) + 1,
                                                  Len(buffer))]
    /\ UNCHANGED <<core, rx, received, batches, last, cs, shared, io, nd, peer>>

NextManifest == DecodeManifest \/ EncodeManifest

SpecManifest == InitManifest /\ [][NextManifest]_vars

\* C16 as stated: decoding a manifest whose hash_id is not 0, whose
\* manifest_type is not 1 or whose signer's signature_id is not 0 returns
\* an EncodingError of kind InvalidData and yields no Manifest.
C16_UnknownIdsRejected ==
    (/\ mf.decoded
     /\ \/ Len(mf.buffer) >= 2 /\ mf.buffer[2] # 0
        \/ Len(mf.buffer) >= 3 /\ mf.buffer[3] # 1
        \/ Len(mf.buffer) >= 4 /\ mf.buffer[4] # 0)
        => mf.result = [err |-> "InvalidData"]

\* C17 as stated: for every buffer Manifest::decode returns Ok or an
\* EncodingError; it never aborts the caller.
C17_DecodeTotal ==
    mf.decoded => ("ok" \in DOMAIN mf.result \/ "err" \in DOMAIN mf.result)

(***************************************************************************)
(* The node specification: two Nodes are built, each by one of the         *)
(* constructors of common/node.rs.                                         *)
(***************************************************************************)
NodeHashes == {Zeros(32), <<1>> \o Zeros(31), Zeros(31) \o <<2>>}

NodeLengths == {0, 3}

\* the parts merkle_tree_stream hands over for a node
NodePartsSet ==
    {[index |-> i, parent |-> flat_tree_parent(i), length |-> l, hash |-> h,
      kind |-> k, data |-> IF k = "Leaf" THEN Fill(l, 7) ELSE <<>>] :
        i \in 0..MaxIndex, l \in NodeLengths, h \in NodeHashes,
        k \in {"Leaf", "Parent"}}

InitNode ==
    /\ core = Hypercore_new
    /\ rx = NoReceiver
    /\ received = <<>>
    /\ batches = <<>>
    /\ last = NoCall
    /\ cs = MerkleTreeChangeset_new(0, 0, 0, <<>>)
    /\ mutex = NoOwner
    /\ tasks = [t \in Tasks |-> Idle]
    /\ io = NoIo
    /\ mf = NoManifest
    /\ peer = NoPeer
    /\ nd = NoNodes

Made(node, by) ==
    [nd EXCEPT !.nodes = Append(@, node), !.by = Append(@, by)]

NodeNew ==
    /\ Len(nd.nodes) < 2 /\ nd.parsed = None
    /\ \E i \in 0..MaxIndex, h \in NodeHashes, l \in NodeLengths :
          nd' = Made(Node_new(i, h, l), "new")
    /\ UNCHANGED <<core, rx, received, batches, last, cs, shared, io, mf, peer>>

NodeNewBlank ==
    /\ Len(nd.nodes) < 2 /\ nd.parsed = None
    /\ \E i \in 0..MaxIndex : nd' = Made(Node_new_blank(i), "new_blank")
    /\ UNCHANGED <<core, rx, received, batches, last, cs, shared, io, mf, peer>>

NodeFromBytes ==
    /\ Len(nd.nodes) < 2 /\ nd.parsed = None
    /\ \E i \in 0..MaxIndex, h \in NodeHashes, l \in NodeLengths :
          LET r == Node_from_bytes(i, h \o u64_to_be(l))
          IN  "ok" \in DOMAIN r /\ nd' = Made(r.ok, "from_bytes")
    /\ UNCHANGED <<core, rx, received, batches, last, cs, shared, io, mf, peer>>

NodeFromParts ==
    /\ Len(nd.nodes) < 2 /\ nd.parsed = None
    /\ \E parts \in NodePartsSet : nd' = Made(Node_from_parts(parts), "from_parts")
    /\ UNCHANGED <<core, rx, received, batches, last, cs, shared, io, mf, peer>>

\* a node is written as a record, to_bytes, and the record is read back at
\* the node's index, from_bytes
NodeStore ==
    /\ nd.stored = None /\ nd.parsed = None
    /\ \E k \in 1..Len(nd.nodes) :
          \E bytes \in {Node_to_bytes(nd.nodes[k])} :
              nd' = [nd EXCEPT !.stored =
                        Some([of |-> k, bytes |-> bytes,
                              back |-> Node_from_bytes(nd.nodes[k].index, bytes)])]
    /\ UNCHANGED <<core, rx, received, batches, last, cs, shared, io, mf, peer>>

\* the sizes of the buffers handed to from_bytes
RecordSizes == {0, 8, 32, 39, 40, 41, 80}

\* from_bytes on a buffer of any size, its first byte 1 and its last 3
NodeParse ==
    /\ nd.parsed = None /\ nd.nodes = <<>>
    /\ \E i \in 0..MaxIndex, n \in RecordSizes :
          \E buffer \in {[k \in 1..n |-> IF k = 1 THEN 1
                                         ELSE IF k = n THEN 3 ELSE 0]} :
              nd' = [nd EXCEPT !.parsed =
                        Some([index |-> i, buffer |-> buffer,
                              result |-> Node_from_bytes(i, buffer)])]
    /\ UNCHANGED <<core, rx, received, batches, last, cs, shared, io, mf, peer>>

NextNode ==
    \/ NodeNew \/ NodeNewBlank \/ NodeFromBytes \/ NodeFromParts
    \/ NodeStore \/ NodeParse

SpecNode == InitNode /\ [][NextNode]_vars

\* C18 as stated: a Node produced by any constructor is blank iff its hash
\* is all zeros.
C18_BlankIffZeroHash ==
    \A k \in 1..Len(nd.nodes) :
        nd.nodes[k].blank <=> ~HasNonZero(nd.nodes[k].hash)

\* C19 as stated: two nodes compare equal iff their index, hash and length
\* are equal, however each was constructed and whatever their data, parent
\* and blank fields are.
C19_EqualityOnThreeFields ==
    Len(nd.nodes) = 2 =>
        LET a == nd.nodes[1]
            b == nd.nodes[2]
        IN  Node_eq(a, b) <=>
               (a.index = b.index /\ a.hash = b.hash /\ a.length = b.length)

(***************************************************************************)
(* A subscriber of the shared core: it subscribed to the new core, takes   *)
(* the events off its receiver while the tasks call the core, and calls    *)
(* info through the shared core.                                           *)
(***************************************************************************)
InitSubscribed ==
    /\ \E r \in {Hypercore_event_subscribe(Hypercore_new)} :
           core = r.core /\ rx = r.receiver
    /\ received = <<>>
    /\ batches = <<>>
    /\ last = NoCall
    /\ cs = MerkleTreeChangeset_new(0, 0, 0, <<>>)
    /\ mutex = NoOwner
    /\ tasks = [t \in Tasks |-> Idle]
    /\ PureIdle

\* rx.recv().await of the subscriber; the receiver is not behind the mutex
SubscriberRecv ==
    /\ rx.active
    /\ \E r \in {try_recv(core.events.channel, rx)} :
           /\ "empty" \notin DOMAIN r.res
           /\ core' = [core EXCEPT !.events.channel = r.channel]
           /\ rx' = r.receiver
           /\ received' = Append(received, r.res)
    /\ UNCHANGED <<batches, last, cs, shared, pure>>

NextSubscribed == NextShared \/ SubscriberRecv

SpecSubscribed == InitSubscribed /\ [][NextSubscribed]_vars

IsHave(evt) == evt.type = "Have" /\ ~evt.drop

\* the change an event of the append of blocks start..start+length-1 tells
\* of is written: tree, bitfield, data and the oplog header hold the blocks
Written(evt) ==
    /\ core.tree.length >= evt.start + evt.length
    /\ \A i \in evt.start..(evt.start + evt.length - 1) :
           /\ i \in core.bitfield
           /\ i < Len(core.storage.Bitfield)
           /\ HasNode(core.tree.nodes, 2 * i)
    /\ Len(core.storage.Data) >= core.tree.byte_length
    /\ \A h \in {Oplog_open(core.storage)} :
           "ok" \in DOMAIN h /\ h.ok.length >= evt.start + evt.length

\* C12: an event of a mutation is on the event queue only after the change
\* was written: in every state, also in the middle of an append of another
\* task, every Have{start, length, drop = false} sent so far tells of blocks
\* the tree, the bitfield, the data store and the oplog header hold, and no
\* more DataUpgrade events were sent than appends were committed; and when
\* info() returns through the shared core, its length is at least
\* start + length of every Have the subscriber had received by then.
C12_EventsFollowState ==
    /\ \A k \in 1..Len(Sent) : IsHave(Sent[k]) => Written(Sent[k])
    /\ Cardinality({k \in 1..Len(Sent) : Sent[k] = DataUpgradeEvent})
           <= Len(batches)
    /\ (last.op = "info" /\ "ok" \in DOMAIN last.ret) =>
          \A k \in 1..last.pre_received :
              ("msg" \in DOMAIN received[k] /\ IsHave(received[k].msg)) =>
                  last.ret.ok.length
                      >= received[k].msg.start + received[k].msg.length

\* info() returned to a task after the subscriber had received the Have of
\* the second block, while the other task was about to append
C12_Witness ==
    /\ last.op = "info" /\ "ok" \in DOMAIN last.ret
    /\ \E k \in 1..last.pre_received :
          /\ "msg" \in DOMAIN received[k]
          /\ received[k].msg = HaveEvent(1, 1, FALSE)
    /\ last.ret.ok.length = 2

(***************************************************************************)
(* Durability of append.  A core appends while its backends may fail, and  *)
(* is reopened from its storage.                                           *)
(***************************************************************************)
\* the indices of the nodes of the perfect subtrees covering n leaves from
\* leaf `first` on
RECURSIVE TreeIndicesFrom(_, _)
TreeIndicesFrom(n, first) ==
    IF n = 0 THEN {}
    ELSE LET p == LargestPow2(n)
         IN  (2 * first)..(2 * (first + p) - 2)
                 \cup TreeIndicesFrom(n - p, first + p)

\* the node at `index` of the tree store
tree_node_read(storage, index) ==
    LET r == Storage_read_info(storage,
                 StoreInfoInstruction_new_content("Tree", NodeSize * index, NodeSize))
    IN  IF "ok" \in DOMAIN r
        THEN [ok |-> Node_new(index,
                         Hash_from_bytes(SubSeq(r.ok.data.some, 1, 32)),
                         u64_from_be(SubSeq(r.ok.data.some, 33, 40)))]
        ELSE [err |-> Outcome(r)]

\* the state a header describes, the nodes and the bits read from the
\* stores; nothing past the header
Hypercore_open_at(storage, header) ==
    Bind([i \in TreeIndicesFrom(header.length, 0) |-> tree_node_read(storage, i)],
         LAMBDA read :
        LET indices == DOMAIN read
            roots   == FullRoots(header.length)
        IN  IF \E i \in indices : "err" \in DOMAIN read[i]
            THEN [err |-> "InvalidOperation"]
            ELSE
            LET rootNodes == [k \in 1..Len(roots) |-> read[roots[k]].ok]
            IN  [ok |->
                  [key_pair |-> [public |-> PublicKey, secret |-> Some(SecretKey)],
                   tree     |-> [length |-> header.length,
                                 byte_length |-> SumNodeLength(rootNodes),
                                 fork |-> header.fork,
                                 roots |-> rootNodes,
                                 signature |-> header.signature,
                                 nodes |-> {read[i].ok : i \in indices}],
                   storage  |-> storage,
                   bitfield |-> {i \in 0..(header.length - 1) :
                                    /\ i < Len(storage.Bitfield)
                                    /\ storage.Bitfield[i + 1] = 1},
                   header   |-> [seq |-> header.seq, entries |-> header.entries],
                   events   |-> Events_new,
                   chans    |-> 0]])

Hypercore_open(storage) ==
    Bind(Oplog_open(storage), LAMBDA h :
        IF "err" \in DOMAIN h THEN h ELSE Hypercore_open_at(storage, h.ok))

\* what a caller can see of a core: info, the signed roots, every block
Observable(c) ==
    [info |-> Hypercore_info(c), roots |-> c.tree.roots,
     signature |-> c.tree.signature,
     blocks |-> [i \in 0..(c.tree.length - 1) |-> Hypercore_get(c, i).ret]]

\* the faults of the backends during one append: none, every call fails
\* after k mutating calls, or the backend of one store fails
Faults ==
    {[writes_left |-> k, broken |-> {}] : k \in -1..MaxWrites}
        \cup {[writes_left |-> -1, broken |-> {s}] : s \in Stores}

\* the batches appended: one block, or two of which one is empty
DurableBatches == {<<Hello>>, <<World, <<>>>>}

DurableInit ==
    /\ core = Hypercore_new
    /\ rx = NoReceiver
    /\ received = <<>>
    /\ batches = <<>>
    /\ last = [op |-> "none", ret |-> [ok |-> None], calls |-> 0,
               pre_journal |-> Len(Hypercore_new.storage.journal),
               pre |-> Observable(Hypercore_new)]
    /\ cs = MerkleTreeChangeset_new(0, 0, 0, <<>>)
    /\ mutex = NoOwner
    /\ tasks = [t \in Tasks |-> Idle]
    /\ PureIdle

DurableAppend ==
    \E batch \in DurableBatches, fault \in Faults :
        /\ core.tree.length + Len(batch) <= MaxBlocks
        /\ last.calls < MaxCalls
        /\ \E r \in {Hypercore_append_batch(
                        [core EXCEPT !.storage.writes_left = fault.writes_left,
                                     !.storage.broken = fault.broken], batch)} :
               /\ core' = [r.core EXCEPT !.storage.writes_left = -1,
                                         !.storage.broken = {}]
               /\ batches' = IF "ok" \in DOMAIN r.ret
                             THEN Append(batches, batch) ELSE batches
               /\ last' = [op |-> "append", ret |-> r.ret,
                           calls |-> last.calls + 1,
                           pre_journal |-> Len(core.storage.journal),
                           pre |-> Observable(core)]
        /\ UNCHANGED <<rx, received, cs, shared, pure>>

DurableReopen ==
    /\ last.op = "append"
    /\ \E r \in {Hypercore_open(core.storage)} :
           /\ "ok" \in DOMAIN r
           /\ core' = r.ok
           /\ last' = [op |-> "open", ret |-> [ok |-> None],
                       calls |-> last.calls,
                       pre_journal |-> Len(core.storage.journal),
                       pre |-> Observable(core)]
    /\ UNCHANGED <<rx, received, batches, cs, shared, pure>>

DurableNext == DurableAppend \/ DurableReopen

SpecDurable == DurableInit /\ [][DurableNext]_vars

\* the stores written since the last call began, in order
Gained ==
    LET j == core.storage.journal
    IN  [k \in 1..(Len(j) - last.pre_journal) |-> j[last.pre_journal + k].store]

StoreRank(store) ==
    CASE store = "Tree" -> 1 [] store = "Data" -> 2
      [] store = "Bitfield" -> 3 [] store = "Oplog" -> 4

Count(s, x) == Cardinality({k \in 1..Len(s) : s[k] = x})

Reopened == Hypercore_open(core.storage)

\* the state a reopening of the storage yields is the state in memory
ReopenedIsCurrent ==
    \A r \in {Reopened} :
        /\ "ok" \in DOMAIN r
        /\ Hypercore_info(r.ok) = Hypercore_info(core)
        /\ \A o \in {Observable(core)} :
               /\ Observable(r.ok) = o
               /\ (last.op = "append" /\ "err" \in DOMAIN last.ret) => o = last.pre

\* C11: within one append the tree nodes, the data, the bitfield and the
\* oplog entry are written in that order, one write after another, and the
\* append stops at the first write that fails; the header is written last,
\* only when every earlier write succeeded.  An append that fails leaves the
\* header where it was, and reopening the storage then yields the state
\* before that append; an append that succeeds is what reopening yields.
C11_WriteOrdering ==
    /\ ReopenedIsCurrent
    /\ last.op = "append" =>
          \A g \in {Gained} :
              /\ \A k \in 1..(Len(g) - 1) :
                     StoreRank(g[k]) <= StoreRank(g[k + 1])
              /\ Count(g, "Data") <= 1 /\ Count(g, "Bitfield") <= 1
              /\ IF "ok" \in DOMAIN last.ret
                 THEN /\ Count(g, "Tree") >= 1
                      /\ Count(g, "Data") = 1
                      /\ Count(g, "Bitfield") = 1
                      /\ Count(g, "Oplog") = 2
                 ELSE Count(g, "Oplog") <= 1

\* an append that failed after its oplog entry was written, on a core that
\* holds blocks
C11_Witness ==
    /\ last.op = "append"
    /\ "err" \in DOMAIN last.ret
    /\ Count(Gained, "Oplog") = 1
    /\ core.tree.length > 0
    /\ Observable(Reopened.ok) = last.pre

(***************************************************************************)
(* The steps of a changeset, in the changeset specification: `last` holds  *)
(* the call made last and the changeset it was made on.                    *)
(***************************************************************************)
\* C27: append(b) creates a leaf with index 2 * (length before the call),
\* hash LEAF(b) and length |b|, increases length by 1, byte_length by |b|
\* and batch_length by 1, returns |b| and sets upgraded; a changeset just
\* created has batch_length 0, upgraded false, no nodes and no
\* hash_and_signature; so length = ancestors + batch_length throughout.
C27_AppendStep ==
    /\ last.op = "append" =>
          /\ Len(cs.nodes) > Len(last.pre.nodes)
          /\ cs.nodes[Len(last.pre.nodes) + 1]
                 = Node_new(2 * last.pre.length, Hash_data(last.arg), Len(last.arg))
          /\ cs.length = last.pre.length + 1
          /\ cs.byte_length = last.pre.byte_length + Len(last.arg)
          /\ cs.batch_length = last.pre.batch_length + 1
          /\ last.ret = Len(last.arg)
          /\ cs.upgraded
    /\ last.op = "new" =>
          /\ cs.batch_length = 0 /\ ~cs.upgraded
          /\ cs.nodes = <<>> /\ cs.hash_and_signature = None
    /\ cs.length = cs.ancestors + cs.batch_length

\* the fourth leaf was appended to a changeset created at length 2: it is
\* node 6, and the changeset has grown by two leaves
C27_Witness ==
    /\ last.op = "append" /\ last.arg = World
    /\ last.pre.length = 3 /\ cs.ancestors = 2 /\ cs.batch_length = 2
    /\ \E k \in 1..Len(cs.nodes) : cs.nodes[k].index = 6

\* the leaves (block indices) under node i
SpanLeaves(i) ==
    LET half == two_pow(flat_tree_depth(i)) - 1
    IN  ((i - half) \div 2)..((i + half) \div 2)

RECURSIVE SumOver(_, _)
\* the sum of f over the set S
SumOver(f, S) ==
    IF S = {} THEN 0
    ELSE LET x == CHOOSE y \in S : TRUE IN f[x] + SumOver(f, S \ {x})

\* C28: when append_root returns the last two roots are not siblings; each
\* merge has removed two sibling roots and added one parent, whose index is
\* the flat-tree parent of both and whose length is the sum of their
\* lengths; nodes has gained the new leaf and one parent per merge; so no
\* node index appears twice in nodes and every parent's length is the byte
\* length of the leaves under it.
C28_MergeStep ==
    /\ Len(cs.roots) >= 2 =>
          flat_tree_sibling(cs.roots[Len(cs.roots)].index)
              # cs.roots[Len(cs.roots) - 1].index
    /\ last.op = "append" =>
          LET old    == last.pre.roots
              new    == SubSeq(cs.nodes, Len(last.pre.nodes) + 1, Len(cs.nodes))
              merges == Len(new) - 1
          IN  /\ merges >= 0 /\ merges <= Len(old)
              /\ SubSeq(cs.nodes, 1, Len(last.pre.nodes)) = last.pre.nodes
              /\ new[1].index = 2 * last.pre.length
              /\ cs.roots = SubSeq(old, 1, Len(old) - merges) \o <<new[merges + 1]>>
              /\ \A k \in 1..merges :
                    LET a == new[k]
                        b == old[Len(old) - k + 1]
                    IN  /\ flat_tree_sibling(a.index) = b.index
                        /\ new[k + 1].index = flat_tree_parent(a.index)
                        /\ new[k + 1].index = flat_tree_parent(b.index)
                        /\ new[k + 1].length = a.length + b.length
                        /\ new[k + 1].hash = Hash_parent(a, b)
    /\ \A j, k \in 1..Len(cs.nodes) :
          cs.nodes[j].index = cs.nodes[k].index => j = k
    /\ \A k \in 1..Len(cs.nodes) :
          cs.nodes[k].length
              = SumOver([i \in 0..(Len(Log) - 1) |-> Len(Log[i + 1])],
                        SpanLeaves(cs.nodes[k].index))

\* the fourth leaf was appended and merged twice: nodes gained the leaf 6 and
\* the parents 5 and 3, and node 3 is the only root
C28_Witness ==
    /\ last.op = "append"
    /\ Len(cs.nodes) = Len(last.pre.nodes) + 3
    /\ Len(cs.roots) = 1 /\ cs.roots[1].index = 3
    /\ cs.roots[1].length > 0

\* C29: append and hash_and_sign change neither ancestors nor fork nor
\* original_tree_length nor original_tree_fork; ancestors is the length the
\* changeset was created with; and no call on a changeset touches a store or
\* the committed tree.
C29_ChangesetFrame ==
    /\ last.op \in {"append", "hash_and_sign"} =>
          /\ cs.ancestors = last.pre.ancestors
          /\ cs.fork = last.pre.fork
          /\ cs.original_tree_length = last.pre.original_tree_length
          /\ cs.original_tree_fork = last.pre.original_tree_fork
    /\ last.op = "new" =>
          cs.ancestors = last.pre.length /\ cs.fork = last.pre.fork
    /\ cs.ancestors = cs.original_tree_length
    /\ cs.fork = cs.original_tree_fork
    /\ last.op # "none" =>
          /\ core.storage = last.pre_core.storage
          /\ core.tree = last.pre_core.tree
          /\ core.bitfield = last.pre_core.bitfield

\* a changeset created at length 2 was signed after two appends: ancestors
\* is still 2
C29_Witness ==
    /\ last.op = "hash_and_sign"
    /\ cs.ancestors = 2 /\ cs.length = 4 /\ cs.fork = 1
    /\ cs.hash_and_signature # None

\* C30: whenever hash_and_signature is present on a changeset, its hash is
\* the ROOT hash of the roots the changeset has now, and its signature is
\* valid for the length and the fork the changeset has now.
C30_SignatureFreshness ==
    cs.hash_and_signature # None =>
        /\ cs.hash_and_signature.some[1] = MerkleTreeChangeset_hash(cs)
        /\ verify(PublicKey,
                  signable_tree(MerkleTreeChangeset_hash(cs), cs.length, cs.fork),
                  cs.hash_and_signature.some[2])

(***************************************************************************)
(* truncate and clear, after the table of operations of the core           *)
(* controller: truncate(new_length) rewinds the tree and the bitfield,     *)
(* writes an oplog entry and bumps the fork; clear(start, end) drops the   *)
(* blocks and emits Have{drop: true}.                                      *)
(***************************************************************************)
\* the nodes that lie wholly below `length` leaves
nodes_below(nodes, length) ==
    {n \in nodes : flat_tree_right_span(n.index) < 2 * length}

\* the roots of a tree of `length` leaves, taken from its nodes
roots_of(nodes, length) ==
    [k \in 1..Len(FullRoots(length)) |-> NodeAt(nodes, FullRoots(length)[k])]

\* the rewound tree, signed under the next fork
truncate_stage(c, new_length) ==
    Bind(MerkleTreeChangeset_hash_and_sign(
             MerkleTreeChangeset_new(new_length,
                 SumNodeLength(roots_of(c.tree.nodes, new_length)),
                 c.tree.fork + 1, roots_of(c.tree.nodes, new_length)),
             c.key_pair.public, c.key_pair.secret.some),
         LAMBDA changeset :
        [changeset |-> changeset,
         bitfield_update |-> [drop |-> TRUE, start |-> new_length,
                              length |-> c.tree.length - new_length],
         header |-> Oplog_header(c, changeset)])

\* the bits of a dropped range leave the bitfield store
drop_bitfield_infos(c, f) ==
    <<StoreInfo_new_delete("Bitfield", f.bitfield_update.start,
                           f.bitfield_update.length)>>

truncate_writes(c, f) ==
    <<drop_bitfield_infos(c, f), append_entry_infos(c, f),
      append_header_infos(c, f)>>

truncate_commit(c, f) ==
    [c EXCEPT !.tree = [length |-> f.changeset.length,
                        byte_length |-> f.changeset.byte_length,
                        fork |-> f.changeset.fork,
                        roots |-> f.changeset.roots,
                        signature |-> f.changeset.hash_and_signature.some[2],
                        nodes |-> nodes_below(@.nodes, f.changeset.length)],
              !.bitfield = {i \in @ : i < f.changeset.length},
              !.header = [seq |-> f.header.seq, entries |-> f.header.entries]]

truncate_staged(c, f) ==
    Bind(flush_each(c, truncate_writes(c, f)), LAMBDA r :
        IF "err" \in DOMAIN r
        THEN [core |-> r.core, ret |-> [err |-> r.err], sends |-> <<>>]
        ELSE [core |-> truncate_commit(r.ok, f), ret |-> [ok |-> None],
              sends |-> <<>>])

\* mutant: the bitfield is rewound before the key pair is looked at
Hypercore_truncate_rewinding(c, new_length) ==
    IF c.key_pair.secret = None
    THEN [core |-> [c EXCEPT !.bitfield = {i \in @ : i < new_length}],
          ret |-> [err |-> "NotWritable"], sends |-> <<>>]
    ELSE Bind(truncate_stage(c, new_length), LAMBDA f : truncate_staged(c, f))

Hypercore_truncate(c, new_length) ==
    IF c.key_pair.secret = None
    THEN [core |-> c, ret |-> [err |-> "NotWritable"], sends |-> <<>>]
    ELSE Bind(truncate_stage(c, new_length), LAMBDA f : truncate_staged(c, f))

\* the blocks of [start, end) that the core holds
clear_held(c, start, end) ==
    {i \in start..(end - 1) : get_present(c, i)}

\* mutant: clear leaves the data store alone
clear_data_infos_none(c, start, end) == <<>>

\* one delete per held block, at its byte range
RECURSIVE clear_data_infos(_, _, _)
clear_data_infos(c, start, end) ==
    IF start >= end THEN <<>>
    ELSE IF ~get_present(c, start) THEN clear_data_infos(c, start + 1, end)
    ELSE Bind(MerkleTree_byte_range(c.tree, start), LAMBDA range :
             <<StoreInfo_new_delete("Data", range.ok.index, range.ok.length)>>
                 \o clear_data_infos(c, start + 1, end))

clear_stage(c, start, end) ==
    [changeset |-> MerkleTree_changeset(c.tree),
     bitfield_update |-> [drop |-> TRUE, start |-> start, length |-> end - start],
     header |-> [valid |-> TRUE, seq |-> c.header.seq + 1,
                 entries |-> c.header.entries + 1,
                 length |-> c.tree.length, fork |-> c.tree.fork,
                 signature |-> c.tree.signature]]

\* the bits of a cleared range are zeroed in the bitfield store
clear_bitfield_infos(c, f) ==
    <<StoreInfo_new_content("Bitfield", f.bitfield_update.start,
                            Fill(f.bitfield_update.length, 0))>>

clear_writes(c, f) ==
    <<clear_data_infos(c, f.bitfield_update.start,
                       f.bitfield_update.start + f.bitfield_update.length),
      clear_bitfield_infos(c, f), append_entry_infos(c, f),
      append_header_infos(c, f)>>

clear_commit(c, f) ==
    [c EXCEPT !.bitfield = @ \ (f.bitfield_update.start ..
                  f.bitfield_update.start + f.bitfield_update.length - 1),
              !.header = [seq |-> f.header.seq, entries |-> f.header.entries]]

clear_emit(c, f) ==
    LET s1 == Events_send(c.events, Have_from(f.bitfield_update))
    IN  [core |-> [c EXCEPT !.events = s1.events], sends |-> <<s1.result>>]

Hypercore_clear(c, start, end) ==
    IF start >= end
    THEN [core |-> c, ret |-> [ok |-> None], sends |-> <<>>]
    ELSE Bind(clear_stage(c, start, end), LAMBDA f :
         Bind(flush_each(c, clear_writes(c, f)), LAMBDA r :
             IF "err" \in DOMAIN r
             THEN [core |-> r.core, ret |-> [err |-> r.err], sends |-> <<>>]
             ELSE Bind(clear_emit(clear_commit(r.ok, f), f), LAMBDA e :
                      [core |-> e.core, ret |-> [ok |-> None],
                       sends |-> e.sends])))

(***************************************************************************)
(* Proofs, after "Proof generation" and "Proof verification" of the        *)
(* design: a proof carries a block with the siblings on its way up to a    *)
(* full root, and an upgrade with the nodes that tie the requester's tree  *)
(* into the signed roots.  Hash and seek requests are not modelled; a      *)
(* block request always has nodes = 0.                                     *)
(***************************************************************************)
\* a set of nodes with distinct indices, in ascending index order
RECURSIVE nodes_ascending(_)
nodes_ascending(S) ==
    IF S = {} THEN <<>>
    ELSE LET first == CHOOSE n \in S : \A m \in S : n.index <= m.index
         IN  <<first>> \o nodes_ascending(S \ {first})

SeqToSet(q) == {q[k] : k \in 1..Len(q)}

flat_tree_left_child(i) == i - two_pow(flat_tree_depth(i) - 1)

flat_tree_right_child(i) == i + two_pow(flat_tree_depth(i) - 1)

flat_tree_left_span(i) == i - two_pow(flat_tree_depth(i)) + 1

\* mutant: only the siblings to the left are collected
RECURSIVE block_siblings_left(_, _)
block_siblings_left(index, roots) ==
    IF index \in roots THEN {}
    ELSE (IF flat_tree_sibling(index) < index
          THEN {flat_tree_sibling(index)} ELSE {})
             \cup block_siblings_left(flat_tree_parent(index), roots)

\* the siblings from node `index` up to the root above it
RECURSIVE block_siblings(_, _)
block_siblings(index, roots) ==
    IF index \in roots THEN {}
    ELSE {flat_tree_sibling(index)}
             \cup block_siblings(flat_tree_parent(index), roots)

\* the nodes below root `index` that a tree of `start` leaves lacks: what
\* lies wholly past its leaves, found by descending from the root
RECURSIVE upgrade_needs(_, _, _)
upgrade_needs(index, from, start) ==
    IF index \in from THEN {}
    ELSE IF flat_tree_left_span(index) >= 2 * start THEN {index}
    ELSE upgrade_needs(flat_tree_left_child(index), from, start)
             \cup upgrade_needs(flat_tree_right_child(index), from, start)

\* peer.rs: the block of a proof takes its value; the other parts move over
ValuelessProof_into_proof(vp, block_value) ==
    IF vp.block # None /\ block_value = None
    THEN [panic |-> "Data block needs to be given"]
    ELSE [ok |-> [fork |-> vp.fork,
                  block |-> IF vp.block = None THEN None
                            ELSE Some([index |-> vp.block.some.index,
                                       nodes |-> vp.block.some.nodes,
                                       value |-> block_value.some]),
                  hash |-> vp.hash, seek |-> vp.seek, upgrade |-> vp.upgrade]]

\* the length a request reaches to
proof_horizon(c, block, upgrade) ==
    IF upgrade # None THEN upgrade.some.start + upgrade.some.length
    ELSE block.some.index + 1

\* the proof without the block's value, against the current signed tree
create_valueless_proof(c, block, upgrade) ==
    LET roots == SeqToSet(FullRoots(c.tree.length))
    IN  [fork    |-> c.tree.fork,
         block   |-> IF block = None THEN None
                     ELSE Some([index |-> block.some.index,
                                nodes |-> nodes_ascending(
                                    {NodeAt(c.tree.nodes, i) :
                                        i \in block_siblings(2 * block.some.index, roots)})]),
         hash    |-> None,
         seek    |-> None,
         upgrade |-> IF upgrade = None THEN None
                     ELSE Some([start |-> upgrade.some.start,
                                length |-> c.tree.length - upgrade.some.start,
                                nodes |-> nodes_ascending(
                                    {NodeAt(c.tree.nodes, i) :
                                        i \in UNION {upgrade_needs(r,
                                                 SeqToSet(FullRoots(upgrade.some.start)),
                                                 upgrade.some.start) : r \in roots}}),
                                additional_nodes |-> <<>>,
                                signature |-> c.tree.signature])]

\* create_proof(block, None, None, upgrade): an error when the request is
\* ahead of the tree, None when the block is not held
Hypercore_create_proof(c, block, upgrade) ==
    IF block = None /\ upgrade = None THEN [ok |-> None]
    ELSE IF \/ proof_horizon(c, block, upgrade) > c.tree.length
            \/ block # None /\ block.some.index >= c.tree.length
    THEN [err |-> "InvalidProof"]
    ELSE IF block # None /\ ~get_present(c, block.some.index) THEN [ok |-> None]
    ELSE Bind(IF block = None THEN [ok |-> None]
              ELSE Hypercore_get(c, block.some.index).ret, LAMBDA value :
        IF "err" \in DOMAIN value THEN value
        ELSE Bind(ValuelessProof_into_proof(
                      create_valueless_proof(c, block, upgrade), value.ok),
                  LAMBDA p : IF "ok" \in DOMAIN p THEN [ok |-> Some(p.ok)] ELSE p))

\* the node at `index` as the proof gives it, else as the tree holds it
known_node(given, local, index) ==
    IF HasNode(given, index) THEN Some(NodeAt(given, index))
    ELSE IF HasNode(local, index) THEN Some(NodeAt(local, index))
    ELSE None

\* recompute the hashes from node `cur` up to the root above it; `seen`
\* collects the recomputed nodes and the siblings used
RECURSIVE verify_climb(_, _, _, _, _)
verify_climb(cur, given, local, roots, seen) ==
    IF cur.index \in roots THEN [ok |-> [root |-> cur, nodes |-> seen \cup {cur}]]
    ELSE Bind(known_node(given, local, flat_tree_sibling(cur.index)), LAMBDA sib :
             IF sib = None THEN [err |-> "InvalidProof"]
             ELSE verify_climb(
                      Node_new(flat_tree_parent(cur.index),
                               Hash_parent(cur, sib.some),
                               cur.length + sib.some.length),
                      given, local, roots, seen \cup {cur, sib.some}))

\* the node at `index`, known or recomputed from the nodes below it
RECURSIVE verify_derive(_, _, _)
verify_derive(given, local, index) ==
    Bind(known_node(given, local, index), LAMBDA known :
        IF known # None THEN [ok |-> known.some]
        ELSE IF flat_tree_depth(index) = 0 THEN [err |-> "InvalidProof"]
        ELSE Bind(verify_derive(given, local, flat_tree_left_child(index)), LAMBDA l :
             IF "err" \in DOMAIN l THEN l
             ELSE Bind(verify_derive(given, local, flat_tree_right_child(index)), LAMBDA r :
                  IF "err" \in DOMAIN r THEN r
                  ELSE [ok |-> Node_new(index, Hash_parent(l.ok, r.ok),
                                        l.ok.length + r.ok.length)])))

\* two sets of nodes agree where both hold a node
nodes_agree(A, B) ==
    \A a \in A : \A b \in B :
        a.index = b.index => a.hash = b.hash /\ a.length = b.length

\* step 3: the block's leaf and the hashes above it, against the nodes
\* supplied and held
verify_block(c, p, to) ==
    IF p.block = None THEN [ok |-> [nodes |-> {}]]
    ELSE IF p.block.some.index >= to THEN [err |-> "InvalidProof"]
    ELSE Bind(verify_climb(
                  Node_new(2 * p.block.some.index, Hash_data(p.block.some.value),
                           Len(p.block.some.value)),
                  SeqToSet(p.block.some.nodes), c.tree.nodes,
                  SeqToSet(FullRoots(to)), {}),
              LAMBDA path :
        IF "err" \in DOMAIN path THEN path
        ELSE IF ~nodes_agree(path.ok.nodes,
                     c.tree.nodes \cup SeqToSet(p.block.some.nodes)
                         \cup (IF p.upgrade = None THEN {}
                               ELSE SeqToSet(p.upgrade.some.nodes)))
        THEN [err |-> "InvalidProof"]
        ELSE [ok |-> [nodes |-> path.ok.nodes]])

\* step 4: the roots the proof implies, and the signature over them
verify_upgrade(c, p, to, given) ==
    Bind([k \in 1..Len(FullRoots(to)) |->
              verify_derive(given, c.tree.nodes, FullRoots(to)[k])],
         LAMBDA derived :
        IF \E k \in DOMAIN derived : "err" \in DOMAIN derived[k]
        THEN [err |-> "InvalidProof"]
        ELSE Bind([k \in DOMAIN derived |-> derived[k].ok], LAMBDA roots :
             IF ~verify(c.key_pair.public,
                        signable_tree(Hash_tree(roots), to, p.fork),
                        p.upgrade.some.signature)
             THEN [err |-> "InvalidSignature"]
             ELSE [ok |-> roots]))

\* steps 1, 3 and 4, and the conflict test of step 5: the verified proof
\* staged, nothing applied yet
verify_stage(c, p) ==
    IF p.upgrade = None /\ c.tree.length = 0 THEN [err |-> "InvalidProof"]
    ELSE
    LET to == IF p.upgrade = None THEN c.tree.length
              ELSE p.upgrade.some.start + p.upgrade.some.length
    IN  Bind(verify_block(c, p, to), LAMBDA block :
        IF "err" \in DOMAIN block THEN block
        ELSE Bind(block.ok.nodes \cup
                      (IF p.block = None THEN {} ELSE SeqToSet(p.block.some.nodes)) \cup
                      (IF p.upgrade = None THEN {} ELSE SeqToSet(p.upgrade.some.nodes)),
                  LAMBDA given :
             Bind(IF p.upgrade = None THEN [ok |-> c.tree.roots]
                  ELSE verify_upgrade(c, p, to, given), LAMBDA roots :
                 IF "err" \in DOMAIN roots THEN roots
                 ELSE IF ~nodes_agree(given \cup SeqToSet(roots.ok), c.tree.nodes)
                 THEN [err |-> "InvalidProof"]
                 ELSE [ok |-> [proof |-> p,
                               grew  |-> p.upgrade # None /\ to > c.tree.length,
                               to    |-> to,
                               roots |-> roots.ok,
                               nodes |-> {n \in given \cup SeqToSet(roots.ok) :
                                             ~HasNode(c.tree.nodes, n.index)}]])))

\* step 5: the tree the verified proof leads to
apply_tree(c, f) ==
    IF f.grew
    THEN [length |-> f.to, byte_length |-> SumNodeLength(f.roots),
          fork |-> f.proof.fork, roots |-> f.roots,
          signature |-> f.proof.upgrade.some.signature,
          nodes |-> c.tree.nodes \cup f.nodes]
    ELSE [c.tree EXCEPT !.nodes = @ \cup f.nodes]

\* the block of the proof is new to the core
apply_block_is_new(c, f) ==
    /\ f.proof.block # None
    /\ f.proof.block.some.index \notin c.bitfield
    /\ f.proof.block.some.index < apply_tree(c, f).length

apply_bitfield_update(c, f) ==
    IF apply_block_is_new(c, f)
    THEN [drop |-> FALSE, start |-> f.proof.block.some.index, length |-> 1]
    ELSE [drop |-> FALSE, start |-> 0, length |-> 0]

apply_header(c, f) ==
    [valid |-> TRUE, seq |-> c.header.seq + 1, entries |-> c.header.entries + 1,
     length |-> apply_tree(c, f).length, fork |-> apply_tree(c, f).fork,
     signature |-> apply_tree(c, f).signature]

apply_tree_infos(c, f) ==
    [k \in 1..Cardinality(f.nodes) |->
        LET node == nodes_ascending(f.nodes)[k]
        IN  StoreInfo_new_content("Tree", NodeSize * node.index,
                Node_to_bytes([node EXCEPT !.hash = Hash_as_bytes(@)]))]

\* the block goes to the byte offset the tree gives it
apply_data_infos(c, f) ==
    IF ~apply_block_is_new(c, f) THEN <<>>
    ELSE <<StoreInfo_new_content("Data",
               MerkleTree_byte_range(apply_tree(c, f),
                                     f.proof.block.some.index).ok.index,
               f.proof.block.some.value)>>

apply_bitfield_infos(c, f) ==
    IF ~apply_block_is_new(c, f) THEN <<>>
    ELSE <<StoreInfo_new_content("Bitfield", f.proof.block.some.index, <<1>>)>>

apply_entry_infos(c, f) ==
    <<StoreInfo_new_content("Oplog", OplogEntriesStart + c.header.entries,
         <<[tree_upgrade |-> [length |-> apply_tree(c, f).length,
                              fork |-> apply_tree(c, f).fork,
                              ancestors |-> c.tree.length],
            bitfield_update |-> apply_bitfield_update(c, f)]>>)>>

apply_writes(c, f) ==
    <<apply_tree_infos(c, f), apply_data_infos(c, f), apply_bitfield_infos(c, f),
      apply_entry_infos(c, f),
      <<StoreInfo_new_content("Oplog", apply_header(c, f).seq % 2,
                              <<apply_header(c, f)>>)>>>>

apply_commit(c, written, f) ==
    [written EXCEPT
        !.tree = apply_tree(c, f),
        !.bitfield = IF apply_block_is_new(c, f)
                     THEN @ \cup {f.proof.block.some.index} ELSE @,
        !.header = [seq |-> c.header.seq + 1, entries |-> c.header.entries + 1]]

RECURSIVE send_each(_, _, _)
send_each(c, events, sends) ==
    IF events = <<>> THEN [core |-> c, sends |-> sends]
    ELSE Bind(Events_send(c.events, Head(events)), LAMBDA s :
             send_each([c EXCEPT !.events = s.events], Tail(events),
                       Append(sends, s.result)))

apply_events(c, f) ==
    (IF f.grew THEN <<DataUpgradeEvent>> ELSE <<>>)
        \o (IF apply_block_is_new(c, f)
            THEN <<Have_from(apply_bitfield_update(c, f))>> ELSE <<>>)

\* a verified proof that brings nothing new changes nothing
apply_is_noop(c, f) ==
    ~f.grew /\ f.nodes = {} /\ ~apply_block_is_new(c, f)

verify_apply(c, f) ==
    IF apply_is_noop(c, f)
    THEN [core |-> c, ret |-> [ok |-> FALSE], sends |-> <<>>]
    ELSE Bind(flush_each(c, apply_writes(c, f)), LAMBDA r :
        IF "err" \in DOMAIN r
        THEN [core |-> r.core, ret |-> [err |-> r.err], sends |-> <<>>]
        ELSE Bind(send_each(apply_commit(c, r.ok, f), apply_events(c, f), <<>>),
                  LAMBDA e :
                 [core |-> e.core, ret |-> [ok |-> f.grew], sends |-> e.sends]))

\* mutant: the block is stored before the proof is verified
Hypercore_verify_and_apply_proof_eager(c, p) ==
    Bind(verify_stage(c, p), LAMBDA f :
        IF "err" \in DOMAIN f
        THEN [core |-> IF p.block = None THEN c
                       ELSE [c EXCEPT !.storage = Storage_flush_info(@,
                                StoreInfo_new_content("Data", 0,
                                    p.block.some.value)).ok],
              ret |-> f, sends |-> <<>>]
        ELSE verify_apply(c, f.ok))

\* verify_and_apply_proof for a proof of the core's own fork
Hypercore_verify_and_apply_proof(c, p) ==
    Bind(verify_stage(c, p), LAMBDA f :
        IF "err" \in DOMAIN f THEN [core |-> c, ret |-> f, sends |-> <<>>]
        ELSE verify_apply(c, f.ok))

(***************************************************************************)
(* Replication.  A writer appends, truncates and clears; a reader that     *)
(* holds the public key only is fed the writer's proofs, as made or        *)
(* tampered with on the way, and is asked to append and to truncate.       *)
(***************************************************************************)
Hypercore_new_reader == [Hypercore_new EXCEPT !.key_pair.secret = None]

NoPeerCall == [op |-> "none"]

PeerCall(op, arg, r) ==
    [op |-> op, arg |-> arg, ret |-> r.ret, sends |-> r.sends, pre |-> peer.core,
     tampered |-> "none", writer |-> None]

\* what may happen to a proof on its way
Tampers == {"none", "altered block", "other signer"}

\* the blocks the writer appends (the empty block and a block of one zero
\* byte among them), and the block an altered proof carries
ZeroBlock == <<0>>

ReplicaBlocks == {<<>>, Hello, ZeroBlock}

AlteredBlock == World

Tampered(p, how, value) ==
    IF how = "altered block" /\ p.block # None
    THEN [p EXCEPT !.block = Some([@.some EXCEPT !.value = value])]
    ELSE IF how = "other signer" /\ p.upgrade # None
    THEN [p EXCEPT !.upgrade = Some([@.some EXCEPT !.signature =
             sign("other", "other secret",
                  IF @ = None THEN <<>> ELSE @.msg)])]
    ELSE p

IsTampered(p, how, value) == Tampered(p, how, value) # p

BlockRequests == {None} \cup {Some([index |-> i, nodes |-> 0]) : i \in 0..(core.tree.length - 1)}

\* the reader asks for what lies past its own length
UpgradeRequests ==
    {None} \cup
    (IF core.tree.length > peer.core.tree.length
     THEN {Some([start |-> peer.core.tree.length,
                 length |-> core.tree.length - peer.core.tree.length])}
     ELSE {})

ReplicaInit ==
    /\ core = Hypercore_new
    /\ peer = [core |-> Hypercore_new_reader, last |-> NoPeerCall]
    /\ rx = NoReceiver
    /\ received = <<>>
    /\ batches = <<>>
    /\ last = NoCall
    /\ cs = MerkleTreeChangeset_new(0, 0, 0, <<>>)
    /\ mutex = NoOwner
    /\ tasks = [t \in Tasks |-> Idle]
    /\ io = NoIo /\ nd = NoNodes /\ mf = NoManifest

WriterFrame == UNCHANGED <<rx, received, batches, cs, shared, io, nd, mf>>

WriterAppend ==
    /\ core.tree.length < MaxReplicaLength
    /\ core.header.seq < MaxWriterSeq
    /\ \E block \in ReplicaBlocks :
           \E r \in {Hypercore_append_batch(core, <<block>>)} :
               /\ core' = r.core
               /\ last' = Call("append", <<block>>, r.ret, r.sends)
    /\ UNCHANGED peer
    /\ WriterFrame

WriterTruncate ==
    /\ core.tree.fork < MaxFork
    /\ core.header.seq < MaxWriterSeq
    /\ \E new_length \in 0..(core.tree.length - 1) :
           \E r \in {Hypercore_truncate(core, new_length)} :
               /\ core' = r.core
               /\ last' = Call("truncate", new_length, r.ret, r.sends)
    /\ UNCHANGED peer
    /\ WriterFrame

WriterClear ==
    /\ core.header.seq < MaxWriterSeq
    /\ \E start \in 0..(core.tree.length - 1) :
           \E r \in {Hypercore_clear(core, start, start + 1)} :
               /\ core' = r.core
               /\ last' = Call("clear", <<start, start + 1>>, r.ret, r.sends)
    /\ UNCHANGED peer
    /\ WriterFrame

\* the writer answers a request of the reader; the proof reaches the reader.
\* A proof of another fork is delivered to an empty reader only, which has
\* no ancestors to reconcile.
Deliver ==
    /\ peer.core.header.seq < MaxReaderSeq
    /\ \E block \in BlockRequests, upgrade \in UpgradeRequests,
          how \in Tampers, value \in {AlteredBlock} :
           \E made \in {Hypercore_create_proof(core, block, upgrade)} :
               /\ "ok" \in DOMAIN made
               /\ made.ok # None
               /\ \/ made.ok.some.fork = peer.core.tree.fork
                  \/ peer.core.tree.length = 0
               /\ how # "none" => IsTampered(made.ok.some, how, value)
               /\ \E p \in {Tampered(made.ok.some, how, value)} :
                      \E r \in {Hypercore_verify_and_apply_proof(peer.core, p)} :
                          peer' = [core |-> r.core,
                                   last |-> [PeerCall("verify_and_apply_proof", p, r)
                                                EXCEPT !.tampered = how,
                                                       !.writer = Some(core)]]
    /\ UNCHANGED <<core, last>>
    /\ WriterFrame

ReaderAppend ==
    /\ \E block \in {AlteredBlock} :
           \E r \in {Hypercore_append_batch(peer.core, <<block>>)} :
               peer' = [core |-> r.core, last |-> PeerCall("append", <<block>>, r)]
    /\ UNCHANGED <<core, last>>
    /\ WriterFrame

ReaderTruncate ==
    /\ \E new_length \in 0..(peer.core.tree.length - 1) :
           \E r \in {Hypercore_truncate(peer.core, new_length)} :
               peer' = [core |-> r.core, last |-> PeerCall("truncate", new_length, r)]
    /\ UNCHANGED <<core, last>>
    /\ WriterFrame

ReaderClear ==
    /\ peer.core.header.seq < MaxReaderSeq
    /\ \E start \in 0..(peer.core.tree.length - 1) :
           /\ start \in peer.core.bitfield
           /\ \E r \in {Hypercore_clear(peer.core, start, start + 1)} :
                  peer' = [core |-> r.core,
                           last |-> PeerCall("clear", <<start, start + 1>>, r)]
    /\ UNCHANGED <<core, last>>
    /\ WriterFrame

ReplicaNext ==
    \/ WriterAppend \/ WriterTruncate \/ WriterClear
    \/ Deliver \/ ReaderAppend \/ ReaderTruncate \/ ReaderClear

SpecReplica == ReplicaInit /\ [][ReplicaNext]_vars

\* the four stores of a core, byte for byte
StoresOf(c) == [s \in Stores |-> c.storage[s]]

\* C26: append and truncate on a core whose key pair has no secret key
\* return NotWritable, emit no event, and leave length, byte_length, fork,
\* the roots, the bitfield and all stores as they were (no backend is even
\* called).
C26_ReadOnlyCores ==
    (peer.core.key_pair.secret = None /\ peer.last.op \in {"append", "truncate"}) =>
        /\ peer.last.ret = [err |-> "NotWritable"]
        /\ peer.last.sends = <<>>
        /\ peer.core.events = peer.last.pre.events
        /\ Hypercore_info(peer.core) = Hypercore_info(peer.last.pre)
        /\ peer.core.tree = peer.last.pre.tree
        /\ peer.core.bitfield = peer.last.pre.bitfield
        /\ StoresOf(peer.core) = StoresOf(peer.last.pre)
        /\ peer.core.storage.journal = peer.last.pre.storage.journal

\* a reader that holds two blocks of three was asked to truncate to one
C26_Witness ==
    /\ peer.core.key_pair.secret = None
    /\ peer.last.op = "truncate"
    /\ peer.last.arg = 1
    /\ peer.core.tree.length = 3
    /\ Cardinality(peer.core.bitfield) = 2

\* a core that has applied nothing yet
IsFresh(c) ==
    /\ c.tree.length = 0 /\ c.tree.roots = <<>> /\ c.tree.nodes = {}
    /\ c.bitfield = {}
    /\ c.header.seq = 0

\* the proof of block i together with the upgrade from nothing to the whole
\* tree
CompleteProof(c, i) ==
    Hypercore_create_proof(c, Some([index |-> i, nodes |-> 0]),
                           Some([start |-> 0, length |-> c.tree.length]))

\* C21: for a writer of length L and any held block i < L, create_proof
\* (block i with nodes = 0, upgrade covering [0, L)) returns a proof; a
\* fresh empty core with the same public key accepts it,
\* verify_and_apply_proof returns true, and afterwards its get(i) returns
\* block i of the writer.
C21_ProofCompleteness ==
    /\ \A i \in 0..(core.tree.length - 1) :
           get_present(core, i) /\ "ok" \in DOMAIN Hypercore_get(core, i).ret =>
               \A made \in {CompleteProof(core, i)} :
                   /\ "ok" \in DOMAIN made
                   /\ made.ok # None
                   /\ made.ok.some.block.some.value = Hypercore_get(core, i).ret.ok.some
    /\ (/\ peer.last.op = "verify_and_apply_proof"
        /\ peer.last.tampered = "none"
        /\ IsFresh(peer.last.pre)
        /\ peer.last.pre.key_pair.public = peer.last.writer.some.key_pair.public
        /\ peer.last.arg.block # None
        /\ peer.last.arg.upgrade # None) =>
           \A w \in {peer.last.writer.some}, i \in {peer.last.arg.block.some.index} :
               /\ peer.last.arg = CompleteProof(w, i).ok.some
               /\ peer.last.ret = [ok |-> TRUE]
               /\ peer.core.tree.length = w.tree.length
               /\ Hypercore_get(peer.core, i).ret = Hypercore_get(w, i).ret
               /\ Hypercore_get(peer.core, i).ret
                      = [ok |-> Some(peer.last.arg.block.some.value)]

\* a fresh reader accepted the proof of block 0 of a writer of three blocks:
\* the proof carries the sibling of the block and both roots
C21_Witness ==
    /\ peer.last.op = "verify_and_apply_proof"
    /\ peer.last.tampered = "none"
    /\ IsFresh(peer.last.pre)
    /\ peer.last.writer.some.tree.length = 3
    /\ peer.last.arg.block # None
    /\ peer.last.arg.block.some.index = 0
    /\ Len(peer.last.arg.block.some.nodes) = 1
    /\ peer.last.arg.upgrade # None
    /\ Len(peer.last.arg.upgrade.some.nodes) = 2
    /\ peer.last.ret = [ok |-> TRUE]
    /\ Hypercore_get(peer.core, 0).ret = [ok |-> Some(Hello)]

\* C23: a proof that verify_and_apply_proof rejects changes nothing.  An
\* altered block inside an otherwise valid proof gives InvalidProof, a proof
\* signed by a different key gives InvalidSignature, a proof without
\* upgrade on a core of length 0 is rejected; and after any rejection the
\* core's length, byte_length, fork, roots, bitfield and four stores are
\* what they were before the call (nor is an event sent).
C23_RejectedProofsChangeNothing ==
    peer.last.op = "verify_and_apply_proof" =>
        /\ peer.last.tampered = "altered block" =>
               peer.last.ret = [err |-> "InvalidProof"]
        /\ peer.last.tampered = "other signer" =>
               peer.last.ret = [err |-> "InvalidSignature"]
        /\ (peer.last.arg.upgrade = None /\ peer.last.pre.tree.length = 0) =>
               "err" \in DOMAIN peer.last.ret
        /\ "err" \in DOMAIN peer.last.ret =>
               /\ Hypercore_info(peer.core) = Hypercore_info(peer.last.pre)
               /\ peer.core.tree = peer.last.pre.tree
               /\ peer.core.bitfield = peer.last.pre.bitfield
               /\ StoresOf(peer.core) = StoresOf(peer.last.pre)
               /\ peer.core.storage.journal = peer.last.pre.storage.journal
               /\ peer.core.events = peer.last.pre.events
               /\ peer.last.sends = <<>>

\* a reader that holds a block of a tree of two was fed the other block,
\* altered, inside a proof that also upgrades it
C23_Witness ==
    /\ peer.last.op = "verify_and_apply_proof"
    /\ peer.last.tampered = "altered block"
    /\ peer.last.ret = [err |-> "InvalidProof"]
    /\ peer.last.pre.tree.length = 2
    /\ peer.last.pre.bitfield = {0}
    /\ peer.last.arg.block.some.index = 1
    /\ peer.last.arg.upgrade # None

\* the data store of core c holds the bytes of block i at the offset the
\* tree gives it: the tree knows leaf 2 * i and its byte range, and the
\* bytes of the store in that range hash to the leaf (no bytes at all, for
\* an empty block)
DataStoreContains(c, i) ==
    /\ i < c.tree.length
    /\ \A range \in {MerkleTree_byte_range(c.tree, i)} :
           /\ "ok" \in DOMAIN range
           /\ \/ range.ok.length = 0
              \/ /\ range.ok.index + range.ok.length <= Len(c.storage.Data)
                 /\ Hash_data(SubSeq(c.storage.Data, range.ok.index + 1,
                                     range.ok.index + range.ok.length))
                        = NodeAt(c.tree.nodes, 2 * i).hash

\* the range of block i in the data store holds a byte that is not zero
HoldsNonZero(c, i) ==
    \A range \in {MerkleTree_byte_range(c.tree, i)} :
        /\ "ok" \in DOMAIN range
        /\ range.ok.index + range.ok.length <= Len(c.storage.Data)
        /\ HasNonZero(SubSeq(c.storage.Data, range.ok.index + 1,
                             range.ok.index + range.ok.length))

BitIffData(c) ==
    \A i \in 0..MaxReplicaLength : i \in c.bitfield <=> DataStoreContains(c, i)

BitThenData(c) ==
    \A i \in 0..MaxReplicaLength :
        /\ i \in c.bitfield => DataStoreContains(c, i)
        /\ (DataStoreContains(c, i) /\ HoldsNonZero(c, i)) => i \in c.bitfield

\* C25 as stated: after any sequence of append, verify_and_apply_proof,
\* clear and truncate, for all i, bit i of the bitfield is set iff the data
\* store contains block i's bytes at the byte offset implied by the tree.
C25_BitfieldData_AsStated == BitIffData(core) /\ BitIffData(peer.core)

\* C25 amended: a set bit i implies that the data store contains block i's
\* bytes at the byte offset implied by the tree; and a block found there
\* with at least one byte that is not zero has its bit set.
C25_BitfieldData_Amended == BitThenData(core) /\ BitThenData(peer.core)

\* the writer cleared "Hello, " in front of a block it still holds, and the
\* reader holds a block behind one it never received
C25_Witness ==
    /\ last.op = "clear"
    /\ core.tree.length = 2
    /\ core.bitfield = {1}
    /\ NodeAt(core.tree.nodes, 0).length = 7
    /\ ~DataStoreContains(core, 0)
    /\ peer.core.bitfield = {1}
    /\ DataStoreContains(peer.core, 1)


(***************************************************************************)
(* The data write of an append, in the sequential specification.           *)
(***************************************************************************)
\* data holds the blocks of batch one after another, in order, nothing else
InOrder(data, batch) ==
    /\ Len(data) = SumLen(batch)
    /\ \A k \in 1..Len(batch) : \A j \in 1..Len(batch[k]) :
           data[SumLen(SubSeq(batch, 1, k - 1)) + j] = batch[k][j]

\* the writes made on the data store, in order
DataWrites ==
    LET j == core.storage.journal
        at == {k \in 1..Len(j) : j[k].store = "Data"}
        nth(n) == CHOOSE k \in at : Cardinality({m \in at : m < k}) = n - 1
    IN  [n \in 1..Cardinality(at) |-> j[nth(n)]]

\* C31: append_batch(batch, _, byte_length) gives one StoreInfo for the Data
\* store, of type Content with miss = false, at index byte_length (the byte
\* length before the batch), whose data is the blocks of the batch one after
\* another in order and whose length is the sum of the block lengths; an
\* append makes exactly that one write on the data store.
C31_DataWriteOfBatch ==
    (last.op = "append" /\ "ok" \in DOMAIN last.ret) =>
        \A before \in {SumLen(Concat(SubSeq(batches, 1, Len(batches) - 1)))} :
        \A info \in {BlockStore_append_batch(last.arg, SumLen(last.arg), before)} :
        \A w \in {DataWrites} :
            /\ info.store = "Data"
            /\ info.info_type = "Content"
            /\ ~info.miss
            /\ info.index = before
            /\ info.length = Some(SumLen(last.arg))
            /\ info.data # None /\ InOrder(info.data.some, last.arg)
            /\ Len(w) = Len(batches)
            /\ w[Len(w)] = [store |-> "Data", op |-> "write",
                            index |-> info.index, length |-> info.length.some]
            /\ Len(core.storage.Data) = before + info.length.some
            /\ SubSeq(core.storage.Data, before + 1, Len(core.storage.Data))
                   = info.data.some

\* a batch of two different blocks appended to a core that holds data
C31_Witness ==
    /\ last.op = "append" /\ "ok" \in DOMAIN last.ret
    /\ Len(batches) >= 2
    /\ SumLen(batches[1]) > 0
    /\ Len(last.arg) = 2
    /\ last.arg[1] = World /\ last.arg[2] = Hello
    /\ DataWrites[Len(batches)].index = SumLen(batches[1])


(***************************************************************************)
(* The shape of a read request and the Size instruction, in the storage    *)
(* specification.                                                          *)
(***************************************************************************)
\* the instruction the request ends at: the first whose read fails or whose
\* subtraction panics; one past the last when there is none
FirstStop ==
    LET st    == io.before
        stops == {k \in 1..Len(io.arg) :
                     ReadFails(st, io.arg[k]) \/ SizePanics(st, io.arg[k])}
    IN  IF stops = {} THEN Len(io.arg) + 1
        ELSE CHOOSE j \in stops : \A i \in stops : j <= i

\* the backend reads of a request are those of its instructions in order, at
\* most one for each, up to the instruction the request ends at
ReadsFollow(calls, instructions, upto) ==
    LET reads   == SelectSeq(calls, LAMBDA c : c.op = "read")
        content == SelectSeq(SubSeq(instructions, 1, upto),
                             LAMBDA ins : ins.info_type = "Content")
    IN  /\ Len(reads) <= Len(content)
        /\ \A k \in 1..Len(reads) :
               /\ reads[k].store = content[k].store
               /\ reads[k].index = content[k].index

\* C32 as stated: read_infos on k instructions returns either exactly k
\* StoreInfos, the j-th with the store and index of the j-th instruction, or
\* an error with no infos; the first failing instruction ends the request,
\* each instruction causes at most one backend read, no store is modified,
\* and an empty list of instructions gives an empty result without a call on
\* any store.
C32_ReadBatchShape ==
    io.op = "read_infos" =>
        /\ io.result # "panic"
        /\ io.result = "Ok" =>
              /\ Len(io.infos) = Len(io.arg)
              /\ \A j \in 1..Len(io.arg) :
                     /\ io.infos[j].store = io.arg[j].store
                     /\ io.infos[j].index = io.arg[j].index
        /\ io.result # "Ok" => io.infos = <<>>
        /\ \A k \in {FirstStop} :
              /\ (io.result = "Ok") <=> (k = Len(io.arg) + 1)
              /\ ReadsFollow(io.calls, io.arg, IF k > Len(io.arg) THEN k - 1 ELSE k)
        /\ io.storage = io.before
        /\ io.arg = <<>> => io.result = "Ok" /\ io.infos = <<>> /\ io.calls = <<>>

\* C33 as stated: for a Size instruction with index i on a store of byte
\* length n, read_infos returns a Size StoreInfo with miss = false whose
\* length satisfies length + i = n as unsigned 64-bit integers without
\* wrap-around, for every i, i > n included.  (A length below zero stands
\* for a wrapped value, 2^64 less its magnitude.)
C33_SizeQueries ==
    (/\ io.op = "read_infos"
     /\ \A k \in 1..Len(io.arg) :
            io.arg[k].info_type = "Size" /\ io.arg[k].store \notin io.before.broken)
    => /\ io.result = "Ok"
       /\ \A k \in 1..Len(io.arg) :
              /\ io.infos[k].info_type = "Size"
              /\ ~io.infos[k].miss
              /\ io.infos[k].length # None
              /\ io.infos[k].length.some >= 0
              /\ io.infos[k].length.some + io.arg[k].index
                     = Len(io.before[io.arg[k].store])


(***************************************************************************)
(* Opening a Storage, in the storage specification.                        *)
(***************************************************************************)
\* the stores with bytes in them, counted in the order of truncation
NonEmptyStores(storage) == {s \in Stores : Len(storage[s]) > 0}

\* an overwriting open meets a backend that fails: one whose every call
\* fails, or the backends accept fewer truncations than stores hold bytes
TruncationFails(storage) ==
    \/ storage.broken # {}
    \/ /\ storage.writes_left >= 0
       /\ Cardinality(NonEmptyStores(storage)) > storage.writes_left

EncodeRoundTrip(size) ==
    mf.encoded # None =>
        \A e \in {mf.encoded.some} :
            IF e.manifest.hash = "blake2b" /\ e.manifest.signer.signature = "ed25519"
            THEN /\ "ok" \in DOMAIN e.result
                 /\ Len(e.result.ok) = size
                 /\ e.result.ok = <<0, 0, 1, 0>> \o e.manifest.signer.namespace
                                      \o e.manifest.signer.public_key
                 /\ e.result.rest = SubSeq(e.given, size + 1, Len(e.given))
                 /\ mf.buffer = e.result.ok \o e.result.rest
                 /\ mf.decoded =>
                        /\ "ok" \in DOMAIN mf.result
                        /\ mf.result.ok = e.manifest
                        /\ mf.result.rest = SubSeq(e.given, size + 1, Len(e.given))
            ELSE /\ "err" \in DOMAIN e.result
                 /\ e.result.err = "InvalidData"

\* C35 as stated: for every manifest with hash "blake2b" and signer
\* signature "ed25519", whatever its namespace and public key, encode writes
\* exactly 67 bytes: version 0, hash id 0, manifest type 1, signature id 0,
\* the 32 bytes of the namespace, the 32 bytes of the public key; decode of
\* those bytes returns an equal manifest and leaves the rest of the buffer
\* as it was; encode of a manifest with another hash or signature name fails
\* with InvalidData.
C35_ManifestRoundTrip_AsStated == EncodeRoundTrip(67)

\* C35 amended: the same with 68 bytes written, which is what the four
\* identifier bytes and the two arrays of 32 bytes come to.
C35_ManifestRoundTrip_Amended == EncodeRoundTrip(Manifest_encoded_size)

\* a manifest with a public key of 32 different bytes was encoded into a
\* buffer with room to spare and decoded again
C35_Witness ==
    /\ mf.encoded # None /\ mf.decoded
    /\ "ok" \in DOMAIN mf.result
    /\ mf.result.ok.signer.public_key = [k \in 1..32 |-> k]
    /\ mf.result.ok.signer.namespace = Fill(32, 5)
    /\ Len(mf.encoded.some.result.ok) = 68
    /\ Len(mf.result.rest) = 2


(***************************************************************************)
(* The record of a node, in the node specification.                        *)
(***************************************************************************)
\* C36 as stated: for every node made by Node::new with a hash of 32 bytes,
\* by Node::new_blank or by from_bytes, to_bytes gives a record of 40 bytes,
\* the 32 bytes of the hash followed by the length as 8 bytes, big end
\* first, and from_bytes(index, record) succeeds with a node of the same
\* index, hash and length; from_bytes rejects every buffer whose length is
\* not 40.  (The lengths of the nodes made here are below 2^24, so the
\* first five bytes of the length are 0.)
C36_NodeRecordRoundTrip ==
    /\ nd.stored # None =>
          \A t \in {nd.stored.some} : \A node \in {nd.nodes[t.of]} :
              (/\ nd.by[t.of] \in {"new", "new_blank", "from_bytes"}
               /\ nd.by[t.of] = "new" => Len(node.hash) = 32)
              => /\ Len(t.bytes) = 40
                 /\ SubSeq(t.bytes, 1, 32) = node.hash
                 /\ \A j \in 1..5 : t.bytes[32 + j] = 0
                 /\ \A j \in 6..8 :
                        t.bytes[32 + j] = (node.length \div (256 ^ (8 - j))) % 256
                 /\ "ok" \in DOMAIN t.back
                 /\ t.back.ok.index = node.index
                 /\ t.back.ok.hash = node.hash
                 /\ t.back.ok.length = node.length
    /\ nd.parsed # None =>
          (Len(nd.parsed.some.buffer) # 40 => "err" \in DOMAIN nd.parsed.some.result)


(***************************************************************************)
(* The operands of the parent hash, in the changeset specification.        *)
(***************************************************************************)
\* the merges of the append made last: for each, the root that was second
\* to last (left), the root that was last (right) and the parent made
MergesOfLast ==
    LET old    == last.pre.roots
        new    == SubSeq(cs.nodes, Len(last.pre.nodes) + 1, Len(cs.nodes))
    IN  [k \in 1..(Len(new) - 1) |->
            [left |-> old[Len(old) - k + 1], right |-> new[k],
             parent |-> new[k + 1]]]

LiveCores ==
    {Hypercore_new,
     [Hypercore_new EXCEPT !.storage.writes_left = 0],
     [Hypercore_new EXCEPT !.storage.writes_left = 2],
     [Hypercore_new EXCEPT !.key_pair.secret = None]}

InitSharedLive ==
    /\ core \in LiveCores
    /\ rx = NoReceiver
    /\ received = <<>>
    /\ batches = <<>>
    /\ last = NoCall
    /\ cs = MerkleTreeChangeset_new(0, 0, 0, <<>>)
    /\ mutex = NoOwner
    /\ tasks = [t \in Tasks |-> Idle]
    /\ PureIdle

\* the calls made under fair scheduling: every method, one argument each
LiveCalls ==
    {[op |-> o, arg |-> <<>>] : o \in {"info", "key_pair"} \cup OpaqueOps}
    \cup {[op |-> "get", arg |-> 0], [op |-> "append", arg |-> Hello]}

LiveCall(t) ==
    /\ TaskCall(t)
    /\ [op |-> tasks'[t].op, arg |-> tasks'[t].arg] \in LiveCalls

SomeLiveCalls == \E t \in Tasks : LiveCall(t)

NextSharedLive == SomeLiveCalls \/ SomeTaskLocks \/ SomeTaskSteps

\* TaskStep(t) can be taken exactly when t is inside its Hypercore call:
\* every branch of every phase ends in Proceed or Return, which change
\* tasks[t]
TaskStep_enabled(t) == tasks[t].pc = "body"

\* weak fairness of TaskStep(t), WF_vars(TaskStep(t)), with its enabling
\* condition written as the state predicate above: the runtime goes on
\* polling a task whose Hypercore call can go on (storage operations
\* terminate)
TaskStep_polled(t) ==
    \/ []<>(~TaskStep_enabled(t))
    \/ []<><<TaskStep(t)>>_vars

\* tokio's Mutex hands the lock to the waiting tasks in turn (a fair lock):
\* strong fairness of TaskLock
SpecSharedLive ==
    /\ InitSharedLive
    /\ [][NextSharedLive]_vars
    /\ \A t \in Tasks : TaskStep_polled(t) /\ SF_vars(TaskLock(t))

\* what one step does to the lock of task t is one of: nothing; t, waiting
\* in lock(), acquires the free mutex; t, inside its call and holding the
\* mutex, goes on holding it; t returns and the mutex becomes free
LockStep(t) ==
    \/ tasks'[t].pc = tasks[t].pc /\ (mutex = t <=> mutex' = t)
    \/ /\ tasks[t].pc = "idle" /\ tasks'[t].pc = "lock"
       /\ mutex # t /\ mutex' = mutex
    \/ /\ tasks[t].pc = "lock" /\ tasks'[t].pc = "body"
       /\ mutex = NoOwner /\ mutex' = t
    \/ /\ tasks[t].pc = "body" /\ tasks'[t].pc = "idle"
       /\ mutex = t /\ mutex' = NoOwner

\* C38: every SharedCore method acquires the mutex once, never while it
\* holds it, and releases it when the call returns, also when the Hypercore
\* call returns an error; so, with a fair lock and storage operations that
\* terminate, every concurrent call completes in the end and the mutex is
\* never left held.
C38_LockLiveness ==
    /\ [][\A t \in Tasks : LockStep(t)]_vars
    /\ [](\A t \in Tasks : (mutex = t) <=> (tasks[t].pc = "body"))
    /\ \A t \in Tasks : (tasks[t].pc # "idle") ~> (tasks[t].pc = "idle")
    /\ \A t \in Tasks : (mutex = t) ~> (mutex = NoOwner)

\* a call that returned an error has released the mutex while the other
\* task was waiting for it
C38_Witness ==
    /\ last.op = "append" /\ "err" \in DOMAIN last.ret
    /\ mutex = NoOwner
    /\ \E t \in Tasks : tasks[t].pc = "lock" /\ t # last.by.task

====
